---- MODULE Spec2Model ----
(***************************************************************************)
(* AutoTrader worker: the trade-lifecycle state machine of app/worker.py   *)
(* (scan_once, register_trade, cleanup_trade, the three exit passes and    *)
(* the main loop), with the durable state of app/state.py and the trades   *)
(* table of app/storage.py.                                                *)
(*                                                                         *)
(* Conventions                                                             *)
(*  - An Optional[x] of the source is a set: {} is None, {v} is the value. *)
(*  - Prices and quantities are integers; percentages are integer          *)
(*    percents, ATR multipliers are tenths.                                *)
(*  - Time is in minutes (time.time() / 60).                               *)
(*  - A handler is a function from a machine record (the module globals,   *)
(*    the files, the trades table, what the call sent to the broker and    *)
(*    the ledger, and whether it raised) to a machine record.              *)
(***************************************************************************)
EXTENDS Integers, Sequences, FiniteSets, TLC

\* ------------------------------------------------------------------ bounds
MaxTime == 3
MaxTrades == 2
MaxSignals == 2
MaxPos == 1
\* the configuration and the broker data the model runs under
TradeTimeoutMin == 1
TrailPct == 10
TrailActPct == 30
RiskPerTradeUsd == 4
CostBasis == 10
ScanIntervalMin == 2

\* ------------------------------------------------------- program constants
\* config.py: PARTIAL_EXIT_PCT default 0.5, as a percent
PartialExitPct == 50
\* config.py: ORDER_QTY default
DefaultQty == 1
\* config.py: ATR multipliers 1.2, 1.0, 2.0, in tenths
RiskStopAtrMultiplier == 12
TargetOneAtrMultiplier == 10
TargetTwoAtrMultiplier == 20

\* ---------------------------------------------------------------- optionals
None == {}
Some(v) == {v}
IsNone(o) == o = {}
Val(o) == CHOOSE v \in o : TRUE
\* Python truthiness of an Optional[number]: None and 0 are falsy
Truthy(o) == o # {} /\ Val(o) # 0
\* `a or b` on Optional[number]
OrElse(a, b) == IF Truthy(a) THEN a ELSE b
Max(a, b) == IF a >= b THEN a ELSE b
Min(a, b) == IF a <= b THEN a ELSE b

\* ------------------------------------------------------------------ symbols
AllSyms == {"AAPL", "SPY"}
\* str.upper() on the symbols of the model
Upper(s) == IF s = "aapl" THEN "AAPL" ELSE s


VARIABLES
    cfg,            \* the settings object main() passes to every pass
    ACTIVE_TRADES,  \* worker._ACTIVE_TRADES: symbol -> trade state
    HIGH_WATER,     \* worker._HIGH_WATER: symbol -> high-water price
    trades_json,    \* STATE_DIR/trades.json
    high_water_json,\* STATE_DIR/high_water.json
    trades_table,   \* storage.trades_table: trade id -> row
    next_uuid,      \* the next fresh uuid4
    now,            \* time.time(), minutes
    pc,             \* where main()'s loop stands
    positions,      \* broker: symbol -> held quantity
    quotes,         \* market: symbol -> Optional last price
    orders,         \* broker orders submitted by the last step
    events,         \* ledger events appended by the last step
    raised,         \* whether the last step ended in an exception
    scanned,        \* the signals the last step's scan_once was given
    broker_errors,  \* how many broker order calls failed in the last step
    trail_hi,       \* symbol -> the price trailing_exit_pass last saw for the open
                    \* position and the high-water value it used with it
    op,             \* the last step taken
    OPTIONS_CACHE,  \* worker._OPTIONS_CACHE: symbol -> the feedback last fetched and when
    risk_calls,     \* how many times the last step called risk.evaluate
    signal_total,   \* metrics.autotrader_signal_total: the (setup, outcome) labels the
                    \* last step incremented, in order
    last_signal_ts, \* StrategyContext.last_signal_ts: "SETUP:SYMBOL" -> timestamp
    emitted,        \* every signal the plays have returned so far
    call            \* the last library call: its function, arguments and outcome

worker_vars == <<cfg, ACTIVE_TRADES, HIGH_WATER, trades_json, high_water_json, trades_table,
                 next_uuid, now, pc, positions, quotes, orders, events, raised, scanned,
                 broker_errors, trail_hi, op, OPTIONS_CACHE, risk_calls, signal_total>>

vars == <<worker_vars, last_signal_ts, emitted, call>>

\* ------------------------------------------------------------ finite maps
EmptyMap == [x \in {} |-> 0]
MapPut(m, k, v) == [x \in (DOMAIN m) \cup {k} |-> IF x = k THEN v ELSE m[x]]
MapPop(m, k) == [x \in (DOMAIN m) \ {k} |-> m[x]]

\* ------------------------------------------------------- the machine record
\* The process state a handler starts from; orders, events, raised and hi collect
\* what the handler does.
Machine ==
    [trades |-> ACTIVE_TRADES, hw |-> HIGH_WATER, tj |-> trades_json,
     hj |-> high_water_json, table |-> trades_table, uuid |-> next_uuid,
     orders |-> <<>>, events |-> <<>>, raised |-> FALSE, errors |-> 0,
     hi |-> trail_hi, counted |-> <<>>, cache |-> OPTIONS_CACHE, risk_calls |-> 0]

Raise(m) == [m EXCEPT !.raised = TRUE]

\* ledger.event(kind, data={...}): one appended record
Event(kind, symbol, detail, qty) ==
    [kind |-> kind, symbol |-> symbol, detail |-> detail, qty |-> qty]
ledger_event(m, e) == [m EXCEPT !.events = Append(@, e)]

\* autotrader_signal_total.labels(setup=setup, outcome=outcome).inc()
signal_total_inc(m, setup, outcome) == [m EXCEPT !.counted = Append(@, <<setup, outcome>>)]

\* ------------------------------------------------------------- app/state.py
\* _save: json.dump to a temp file, then os.replace; _load: json.load(f) or {}.
\* The maps hold str keys and finite numbers, booleans, strings and nulls, which
\* json.dump/json.load return unchanged.
save_trade_state(m) == [m EXCEPT !.tj = m.trades]
save_high_water(m) == [m EXCEPT !.hj = m.hw]
load_trade_state(file) == file
load_high_water(file) == file

\* ----------------------------------------------------------- app/storage.py
\* INSERT into trades: the id column is the primary key, a second insert of the
\* same id raises IntegrityError. Of a row the model keeps the symbol and the exit
\* columns; the entry columns are written here and never read or updated again.
create_trade(m, trade_id, symbol) ==
    IF trade_id \in DOMAIN m.table
    THEN Raise(m)
    ELSE [m EXCEPT !.table = MapPut(@, trade_id,
            [symbol |-> symbol, exit_price |-> None, exit_reason |-> "",
             exit_ts |-> None])]

\* UPDATE trades SET exit_* WHERE id = trade_id
close_trade(m, trade_id, exit_price, reason, ts) ==
    IF trade_id \in DOMAIN m.table
    THEN [m EXCEPT !.table[trade_id] =
            [@ EXCEPT !.exit_price = exit_price, !.exit_reason = reason,
                      !.exit_ts = Some(ts)]]
    ELSE m

\* ------------------------------------------------------------ app/config.py
\* symbol_overrides(symbol): QTY_<SYM>, STOP_<SYM>, TP_<SYM> of the environment.
\* The worker's environment sets none of them.
symbol_overrides(symbol) == [qty |-> None, stop_pct |-> None, tp_pct |-> None]

\* _get_setup_float(prefix, setup, default): <PREFIX>_<SETUP> of the environment,
\* unset in the worker's environment.
get_setup_float(prefix, setup, default) == default

\* ------------------------------------------------------------ app/worker.py
NoMetadata ==
    [entry_price |-> None, stop_price |-> None, target1 |-> None,
     target2 |-> None, atr |-> None]

\* compute_order_plan(sig, cfg) under the per-symbol overrides ov of the environment.
\* Percentages are integer percents and ATR multipliers tenths; int() truncates, as \div
\* does on the non-negative values here.
plan_under(sig, c, ov) ==
    LET symbol == Upper(sig.symbol)
        setup == IF sig.setup = "" THEN "UNKNOWN" ELSE sig.setup
        md == sig.metadata
        atr == md.atr
        base_qty == IF Truthy(sig.qty) THEN Val(sig.qty) ELSE c.default_qty
        stop_pct == IF IsNone(ov.stop_pct) THEN c.stop_pct ELSE ov.stop_pct
        tp_pct == IF IsNone(ov.tp_pct) THEN c.tp_pct ELSE ov.tp_pct
        risk_per_trade == get_setup_float("RISK_PER_TRADE", setup, c.risk_per_trade_usd)
        stop_mult == get_setup_float("RISK_STOP_ATR_MULTIPLIER", setup, c.risk_stop_atr_multiplier)
        t1_mult == get_setup_float("TARGET_ONE_ATR_MULTIPLIER", setup, c.target_one_atr_multiplier)
        t2_mult == get_setup_float("TARGET_TWO_ATR_MULTIPLIER", setup, c.target_two_atr_multiplier)
        entry == IF IsNone(md.entry_price) THEN sig.price ELSE md.entry_price
        stop ==
            IF IsNone(md.stop_price) /\ ~IsNone(entry)
            THEN IF ~IsNone(stop_pct)
                 THEN Some((Val(entry) * (100 - Val(stop_pct))) \div 100)
                 ELSE IF ~IsNone(atr)
                      THEN Some(Val(entry) - (stop_mult * Val(atr)) \div 10)
                      ELSE None
            ELSE md.stop_price
        target1 ==
            IF IsNone(md.target1) /\ ~IsNone(entry)
            THEN IF ~IsNone(tp_pct)
                 THEN Some((Val(entry) * (100 + Val(tp_pct))) \div 100)
                 ELSE IF ~IsNone(atr)
                      THEN Some(Val(entry) + (t1_mult * Val(atr)) \div 10)
                      ELSE None
            ELSE md.target1
        target2 ==
            IF IsNone(md.target2) /\ ~IsNone(entry)
            THEN IF ~IsNone(atr)
                 THEN Some(Val(entry) + (t2_mult * Val(atr)) \div 10)
                 ELSE target1
            ELSE md.target2
        qty0 == Max(1, IF ~IsNone(ov.qty) THEN Val(ov.qty) ELSE base_qty)
        qty ==
            IF risk_per_trade # 0 /\ ~IsNone(entry) /\ ~IsNone(stop)
               /\ Val(entry) > Val(stop)
            THEN Max(1, risk_per_trade \div (Val(entry) - Val(stop)))
            ELSE qty0
    IN  [qty |-> qty, entry_price |-> entry, stop_price |-> stop,
         target1 |-> target1, target2 |-> target2]

\* compute_order_plan(sig, cfg)
compute_order_plan(sig, c) == plan_under(sig, c, symbol_overrides(Upper(sig.symbol)))

\* registry_key without the upper-casing: the key is the signal's own spelling
raw_key(sig) == sig.symbol

\* The registry key of a signal: (sig.get("symbol") or "").upper()
registry_key(sig) == Upper(sig.symbol)

\* The trade id register_trade gives the entry: the tracked entry's id when it has
\* one, a fresh uuid4 otherwise.
trade_id_for(m, symbol) ==
    IF symbol \in DOMAIN m.trades /\ m.trades[symbol].trade_id # 0
    THEN m.trades[symbol].trade_id
    ELSE m.uuid

\* register_trade(sig, plan, cfg, dry_run) at time t. The registry entry is
\* written before storage.create_trade runs, and save_trade_state after it.
register_trade(m, sig, plan, t) ==
    LET symbol == registry_key(sig)
        source_symbol == Upper(IF sig.source_symbol = "" THEN symbol ELSE sig.source_symbol)
        tracked == symbol \in DOMAIN m.trades
        trade_id == trade_id_for(m, symbol)
        fresh == trade_id = m.uuid
        state ==
            [entry_price |-> plan.entry_price,
             stop_price |-> plan.stop_price,
             target1 |-> plan.target1,
             target2 |-> plan.target2,
             qty |-> plan.qty,
             partial_exited |-> IF tracked THEN m.trades[symbol].partial_exited ELSE FALSE,
             entry_ts |-> t,
             setup |-> IF sig.setup = "" THEN "UNKNOWN" ELSE sig.setup,
             source_symbol |-> source_symbol,
             trade_id |-> trade_id]
        m1 == [m EXCEPT !.trades = MapPut(@, symbol, state),
                        !.uuid = IF fresh THEN @ + 1 ELSE @]
        m2 == create_trade(m1, trade_id, symbol)
    IN  IF symbol = "" \/ IsNone(plan.entry_price) THEN m
        ELSE IF m2.raised THEN m2
        ELSE save_trade_state(m2)

\* cleanup_trade(symbol, reason=None, exit_price=None) at time t; reason "" is None.
cleanup_trade(m, sym, reason, exit_price, t) ==
    LET symbol == Upper(sym)
        tracked == symbol \in DOMAIN m.trades
        m1 == [m EXCEPT !.trades = IF tracked THEN MapPop(@, symbol) ELSE @]
        m2 == IF tracked /\ reason # "" /\ m.trades[symbol].trade_id # 0
              THEN close_trade(m1, m.trades[symbol].trade_id, exit_price, reason, t)
              ELSE m1
    IN  save_trade_state(m2)

\* t.place_equity_order: the broker call raises for the symbols in `down`.
Order(symbol, side, qty, reason) ==
    [symbol |-> symbol, side |-> side, qty |-> qty, reason |-> reason]
place_equity_order(m, o, down) ==
    IF o.symbol \in down
    THEN [m EXCEPT !.raised = TRUE, !.errors = @ + 1]
    ELSE [m EXCEPT !.orders = Append(@, o)]

\* _execute_exit_order without its dry_run branch: every exit goes to the broker
execute_exit_order_live(m, symbol, qty, reason, dry_run, down) ==
    IF qty <= 0 THEN m
    ELSE LET m1 == place_equity_order(m, Order(symbol, "sell", qty, reason), down)
         IN  IF m1.raised THEN m1
             ELSE ledger_event(m1, Event("order_exit", symbol, <<reason>>, qty))

\* _execute_exit_order(cfg, symbol, qty, reason, dry_run)
execute_exit_order(m, symbol, qty, reason, dry_run, down) ==
    IF qty <= 0 THEN m
    ELSE IF dry_run
    THEN ledger_event(m, Event("order_exit", symbol, <<reason, "dry_run">>, qty))
    ELSE LET m1 == place_equity_order(m, Order(symbol, "sell", qty, reason), down)
         IN  IF m1.raised THEN m1
             ELSE ledger_event(m1, Event("order_exit", symbol, <<reason>>, qty))

\* _determine_entry_order(cfg, plan, quote, base_order_type): <<order_type, entry_price>>.
\* Basis points are integers; round(limit_price, 2) is the integer price.
determine_entry_order(c, plan, quote, base_order_type) ==
    LET entry0 == OrElse(plan.entry_price, quote.last)
        bid == quote.bid
        ask == quote.ask
        tight == /\ ~IsNone(entry0) /\ ~IsNone(bid) /\ ~IsNone(ask)
                 /\ Val(bid) > 0 /\ Val(ask) > Val(bid)
                 /\ ((Val(ask) - Val(bid)) * 20000) \div (Val(bid) + Val(ask))
                        <= c.entry_spread_bps
        mid == (Val(bid) + Val(ask)) \div 2
    IN  IF tight
        THEN <<"limit", Some(mid - (mid * c.entry_limit_offset_bps) \div 10000)>>
        ELSE <<base_order_type, entry0>>

\* _get_quote_data(symbol): the market's last price; this market quotes no bid/ask.
get_quote_data(q, symbol) ==
    [last |-> IF symbol \in DOMAIN q THEN q[symbol] ELSE None, bid |-> None, ask |-> None]

\* _get_price(symbol, cache)
get_price(q, symbol) == get_quote_data(q, symbol).last

\* An options gate that looks at the volumes only
feedback_volume_only(m, symbol, c, t, answer) ==
    LET symbol_up == Upper(symbol)
        cached == /\ symbol_up \in DOMAIN m.cache
                  /\ t - m.cache[symbol_up].ts <= c.options_cache_ttl
        data == IF cached THEN Some(m.cache[symbol_up].data) ELSE answer
        m1 == IF ~cached /\ ~IsNone(answer)
              THEN [m EXCEPT !.cache = MapPut(@, symbol_up, [ts |-> t, data |-> Val(answer)])]
              ELSE m
        d == Val(data)
    IN  IF ~c.enable_options_feedback THEN [m |-> m, allowed |-> TRUE]
        ELSE IF IsNone(data) THEN [m |-> m1, allowed |-> TRUE]
        ELSE [m |-> m1,
              allowed |-> ~(/\ d.call_volume < c.options_min_volume
                           /\ d.put_volume < c.options_min_volume)]
\* options_feedback_allows(symbol, cfg) at time t; `answer` is what option_feedback
\* returns if it is asked: None for an exception, None or an empty dict, else the data.
\* Gives the verdict and the machine with its cache.
options_feedback_allows(m, symbol, c, t, answer) ==
    LET symbol_up == Upper(symbol)
        cached == /\ symbol_up \in DOMAIN m.cache
                  /\ t - m.cache[symbol_up].ts <= c.options_cache_ttl
        data == IF cached THEN Some(m.cache[symbol_up].data) ELSE answer
        m1 == IF ~cached /\ ~IsNone(answer)
              THEN [m EXCEPT !.cache = MapPut(@, symbol_up, [ts |-> t, data |-> Val(answer)])]
              ELSE m
        d == Val(data)
    IN  IF ~c.enable_options_feedback THEN [m |-> m, allowed |-> TRUE]
        ELSE IF IsNone(data) THEN [m |-> m1, allowed |-> TRUE]
        ELSE IF d.call_volume < c.options_min_volume /\ d.put_volume < c.options_min_volume
        THEN [m |-> m1, allowed |-> FALSE]
        ELSE IF c.options_max_iv # 0 /\ d.call_iv > c.options_max_iv
        THEN [m |-> m1, allowed |-> FALSE]
        ELSE [m |-> m1, allowed |-> TRUE]

\* `ok, reasons = await risk.evaluate(risk_check_payload)`: one more call made
risk_called(m) == [m EXCEPT !.risk_calls = @ + 1]

\* A scan that goes on to register the trade after a failed order
order_failure_ignored(mo) == FALSE
\* scan_once: t.place_equity_order raised, control is in `except Exception as e`
order_failed(mo) == mo.raised

\* A scan that does not look at the risk verdict
risk_ignored(reasons) == TRUE

\* risk.evaluate returns (len(reasons) == 0, reasons)
risk_passed(reasons) == Len(reasons) = 0

\* The body of scan_once's loop for one signal. `it` carries the signal with what
\* options_feedback_allows and risk.evaluate answer for it.
scan_signal(m, it, c, t, q, down) ==
    LET sig == it.sig
        trade_symbol == Upper(sig.symbol)
        setup == IF sig.setup = "" THEN "UNKNOWN" ELSE sig.setup
        m0 == signal_total_inc(
                  ledger_event(m, Event("signal_generated", trade_symbol, <<>>, 0)),
                  setup, "generated")
        plan == compute_order_plan(sig, c)
        mk == risk_called(options_feedback_allows(m0, trade_symbol, c, t, it.feedback).m)
        quote == get_quote_data(q, trade_symbol)
        deo == determine_entry_order(c, plan, quote, sig.type)
        plan2 == [plan EXCEPT !.entry_price = deo[2]]
        m_appr == signal_total_inc(
                      ledger_event(mk, Event("signal_approved", trade_symbol, <<>>, 0)),
                      setup, "approved")
        mo == place_equity_order(m_appr, Order(trade_symbol, sig.side, plan.qty, "entry"), down)
        mp == ledger_event(signal_total_inc(mo, setup, "submitted"),
                           Event("order_placed", trade_symbol, <<>>, plan.qty))
        mr == register_trade(mp, sig, plan2, t)
        fb == options_feedback_allows(m0, trade_symbol, c, t, it.feedback)
    IN  IF ~fb.allowed
        THEN signal_total_inc(
                 ledger_event(fb.m, Event("signal_blocked", trade_symbol,
                                        <<"options_feedback_block">>, 0)),
                 setup, "options_blocked")
        ELSE IF ~risk_passed(it.reasons)
        THEN signal_total_inc(
                 ledger_event(mk, Event("signal_blocked", trade_symbol, it.reasons, 0)),
                 setup, "risk_blocked")
        ELSE IF c.dry_run
        THEN register_trade(signal_total_inc(m_appr, setup, "dry_run"), sig, plan, t)
        ELSE IF c.tradier_account_id = ""
        THEN m_appr
        ELSE IF order_failed(mo)
        THEN [mo EXCEPT !.raised = FALSE]
        ELSE [mr EXCEPT !.raised = FALSE]

RECURSIVE scan_signals(_, _, _, _, _, _)
scan_signals(m, items, c, t, q, down) ==
    IF items = <<>> \/ m.raised THEN m
    ELSE scan_signals(scan_signal(m, Head(items), c, t, q, down), Tail(items), c, t, q, down)

\* scan_once(cfg) on the signals strategy.ema_crossover_signals() returned
scan_once(m, items, c, t, q, down) == scan_signals(m, items, c, t, q, down)

\* risk.portfolio_snapshot()["positions"]: the broker's positions, none without an
\* account id.
portfolio_positions(c, pos) ==
    IF c.tradier_account_id = "" THEN [x \in {} |-> [quantity |-> 0, cost_basis |-> 0]]
    ELSE pos

position_qty(snap, sym) == IF sym \in DOMAIN snap THEN snap[sym].quantity ELSE 0

\* The broker holds nothing of a tracked symbol and the worker trades live
position_closed(pos_qty, dry_run) == pos_qty <= 0 /\ ~dry_run

\* The partial-exit test without the partial_exited flag
partial_due_again(state, price) ==
    ~IsNone(state.target1) /\ price >= Val(state.target1)

\* The partial exit is due: not done yet, a first target, and the price at it
partial_due(state, price) ==
    ~state.partial_exited /\ ~IsNone(state.target1) /\ price >= Val(state.target1)

\* A partial exit that leaves the stop where it was
keep_stop(state) == state.stop_price

\* The stop after a partial exit: max(stop_price or 0.0, entry_price)
ratchet_stop(state) ==
    Some(Max(IF Truthy(state.stop_price) THEN Val(state.stop_price) ELSE 0,
             Val(state.entry_price)))

\* The body of partial_exit_pass's loop for one tracked symbol.
partial_exit_one(m, c, sym, snap, q, t, down) ==
    LET sym_up == Upper(sym)
        state == m.trades[sym]
        orig_qty == state.qty
        pos_qty == position_qty(snap, sym_up)
        price == get_price(q, sym_up)
        target2 == state.target2
        entry_ts == IF state.entry_ts # 0 THEN state.entry_ts ELSE t
        held == IF ~c.dry_run THEN pos_qty ELSE orig_qty
        \* the partial exit
        part_qty == Min(held, Max(1, (Max(orig_qty, pos_qty) * c.partial_exit_pct) \div 100))
        mp1 == execute_exit_order(m, sym_up, part_qty, "partial_target", c.dry_run, down)
        new_stop ==
            IF ~IsNone(state.entry_price) THEN ratchet_stop(state) ELSE state.stop_price
        mp2 == save_trade_state(
                 [mp1 EXCEPT !.trades[sym] =
                     [@ EXCEPT !.partial_exited = TRUE, !.stop_price = new_stop]])
        m1 == IF partial_due(state, Val(price))
              THEN IF mp1.raised THEN mp1 ELSE mp2
              ELSE m
        \* the final target and the timeout
        mf == execute_exit_order(m1, sym_up, held, "final_target", c.dry_run, down)
        mt == execute_exit_order(m1, sym_up, held, "timeout_exit", c.dry_run, down)
        timeout_min == c.trade_timeout_min
    IN  IF position_closed(pos_qty, c.dry_run) THEN cleanup_trade(m, sym_up, "", None, t)
        ELSE IF IsNone(price) THEN m
        ELSE IF m1.raised THEN m1
        ELSE IF ~IsNone(target2) /\ Val(price) >= Val(target2)
        THEN IF mf.raised THEN mf ELSE cleanup_trade(mf, sym_up, "", None, t)
        ELSE IF timeout_min > 0 /\ t - entry_ts > timeout_min
        THEN IF mt.raised THEN mt ELSE cleanup_trade(mt, sym_up, "", None, t)
        ELSE m1

RECURSIVE partial_exit_loop(_, _, _, _, _, _, _)
partial_exit_loop(m, c, syms, snap, q, t, down) ==
    IF syms = <<>> \/ m.raised THEN m
    ELSE partial_exit_loop(
            IF Head(syms) \in DOMAIN m.trades
            THEN partial_exit_one(m, c, Head(syms), snap, q, t, down)
            ELSE m,
            c, Tail(syms), snap, q, t, down)

\* partial_exit_pass(cfg): `syms` is list(_ACTIVE_TRADES), in the dict's order.
partial_exit_pass(m, c, syms, pos, q, t, down) ==
    IF DOMAIN m.trades = {} THEN m
    ELSE partial_exit_loop(m, c, syms, portfolio_positions(c, pos), q, t, down)

\* What t.minute_bars and the two EMAs give ema_exit_pass for a symbol: the fetch
\* raising TradierHTTPError, the number of closes, e20 - e50 at the last two
\* bars and closes[-1] - e50[-1].
BarsError == [err |-> TRUE, n |-> 0, diff_prev |-> 0, diff_now |-> 0, close_e50 |-> 0]
BarsFew == [err |-> FALSE, n |-> 59, diff_prev |-> 0, diff_now |-> -1, close_e50 |-> -1]
BarsCrossDown == [err |-> FALSE, n |-> 60, diff_prev |-> 0, diff_now |-> -1, close_e50 |-> -1]
BarsNoCross == [err |-> FALSE, n |-> 60, diff_prev |-> 1, diff_now |-> 1, close_e50 |-> 1]
BarsSet == {BarsError, BarsFew, BarsCrossDown, BarsNoCross}

tracked_syms(c) == c.symbols

\* The body of ema_exit_pass's loop for one broker position.
ema_exit_one(m, c, sym, snap, bars, t, down) ==
    LET qty == position_qty(snap, sym)
        b == bars[sym]
        me == execute_exit_order(m, sym, qty, "ema_cross_down", c.dry_run, down)
        \* (resp or {}).get("order", {}).get("price"): the broker's answer names no price
        exit_price == None
    IN  IF qty <= 0 THEN m
        ELSE IF tracked_syms(c) # {} /\ sym \notin tracked_syms(c) THEN m
        ELSE IF b.err THEN m
        ELSE IF b.n < 60 THEN m
        ELSE IF b.diff_prev >= 0 /\ b.diff_now < 0 /\ b.close_e50 < 0
        THEN IF me.raised THEN me
             ELSE cleanup_trade(me, sym, "ema_cross_down", exit_price, t)
        ELSE m

RECURSIVE ema_exit_loop(_, _, _, _, _, _, _)
ema_exit_loop(m, c, syms, snap, bars, t, down) ==
    IF syms = <<>> \/ m.raised THEN m
    ELSE ema_exit_loop(
            IF Head(syms) \in DOMAIN snap
            THEN ema_exit_one(m, c, Head(syms), snap, bars, t, down)
            ELSE m,
            c, Tail(syms), snap, bars, t, down)

\* ema_exit_pass(cfg): `syms` is the order of the broker's position list.
ema_exit_pass(m, c, syms, pos, bars, t, down) ==
    ema_exit_loop(m, c, syms, portfolio_positions(c, pos), bars, t, down)

\* The high-water value trailing_exit_pass uses for a symbol at `price`.
trail_high(hw, sym, price) ==
    LET hi == IF sym \in DOMAIN hw THEN hw[sym] ELSE price
    IN  IF price > hi THEN price ELSE hi

\* The body of trailing_exit_pass's loop for one open position.
trailing_exit_one(m, c, sym, snap, q, t, down) ==
    LET qty == position_qty(snap, sym)
        price == get_price(q, sym)
        hi0 == IF sym \in DOMAIN m.hw THEN m.hw[sym] ELSE Val(price)
        hi == trail_high(m.hw, sym, Val(price))
        m1 == IF Val(price) > hi0
              THEN save_high_water([m EXCEPT !.hw = MapPut(@, sym, hi)])
              ELSE m
        m2 == [m1 EXCEPT !.hi = MapPut(@, sym, [hi |-> hi, price |-> Val(price)])]
        cb == snap[sym].cost_basis
        activate ==
            IF ~IsNone(c.trail_activation_pct) /\ cb # 0
            THEN hi * 100 >= cb * (100 + Val(c.trail_activation_pct))
            ELSE TRUE
        triggered == Val(price) * 100 <= hi * (100 - Val(c.trail_pct))
        popped == [m2 EXCEPT !.hw = MapPop(@, sym), !.hi = MapPop(@, sym)]
        mx == execute_exit_order(m2, sym, qty, "trailing_exit", c.dry_run, down)
        mx2 == [mx EXCEPT !.hw = MapPop(@, sym), !.hi = MapPop(@, sym)]
    IN  IF qty <= 0 THEN m
        ELSE IF IsNone(price) THEN m
        ELSE IF ~activate THEN m2
        ELSE IF ~triggered THEN m2
        ELSE IF c.dry_run
        THEN cleanup_trade(popped, sym, "", None, t)
        ELSE IF mx.raised
        THEN [mx EXCEPT !.raised = FALSE]
        ELSE save_high_water(cleanup_trade(mx2, sym, "", None, t))

RECURSIVE trailing_exit_loop(_, _, _, _, _, _, _)
trailing_exit_loop(m, c, syms, snap, q, t, down) ==
    IF syms = <<>> THEN m
    ELSE trailing_exit_loop(
            IF Head(syms) \in DOMAIN snap
            THEN trailing_exit_one(m, c, Head(syms), snap, q, t, down)
            ELSE m,
            c, Tail(syms), snap, q, t, down)

\* trailing_exit_pass(cfg): `syms` is the order of the broker's position list.
trailing_exit_pass(m, c, syms, pos, q, t, down) ==
    IF ~Truthy(c.trail_pct) \/ Val(c.trail_pct) <= 0 THEN m
    ELSE trailing_exit_loop(m, c, syms, portfolio_positions(c, pos), q, t, down)

\* ------------------------------------------------------------------ inputs
\* settings(): the fields the worker reads. `symbols` is the parsed SYMBOLS list.
Cfg(dry, act, syms) ==
    [dry_run |-> dry,
     symbols |-> syms,
     tradier_account_id |-> "ACCT",
     default_qty |-> DefaultQty,
     stop_pct |-> None,
     tp_pct |-> None,
     risk_per_trade_usd |-> RiskPerTradeUsd,
     risk_stop_atr_multiplier |-> RiskStopAtrMultiplier,
     target_one_atr_multiplier |-> TargetOneAtrMultiplier,
     target_two_atr_multiplier |-> TargetTwoAtrMultiplier,
     partial_exit_pct |-> PartialExitPct,
     trade_timeout_min |-> TradeTimeoutMin,
     trail_pct |-> Some(TrailPct),
     trail_activation_pct |-> act,
     enable_options_feedback |-> FALSE,
     options_min_volume |-> 0,
     options_max_iv |-> 0,
     options_cache_ttl |-> 0,
     entry_spread_bps |-> 10,
     entry_limit_offset_bps |-> 2]

\* A one-symbol deployment is explored in full detail, a two-symbol deployment
\* with one price and one signal shape per symbol.
OneSymbol(c) == Cardinality(c.symbols) = 1

\* The last prices the market quotes
Prices(c) == IF OneSymbol(c) THEN {12, 14} ELSE {12}
OptPrices(c) == {None} \cup {Some(p) : p \in Prices(c)}

\* The spellings a signal may carry for the symbols
Spellings(c) == c.symbols \cup (IF OneSymbol(c) THEN {"aapl"} ELSE {})

\* A signal dict: the keys scan_once, compute_order_plan and register_trade read
Signal(symbol, setup, md) ==
    [symbol |-> symbol, source_symbol |-> "", setup |-> setup, side |-> "buy",
     type |-> "market", qty |-> None, price |-> None, metadata |-> md]

Bracket(entry, stop, t1, t2) ==
    [entry_price |-> entry, stop_price |-> stop, target1 |-> t1, target2 |-> t2,
     atr |-> None]

\* What the strategy hands scan_once: a play with its bracket below the entry, a
\* play whose stop lies above the entry, and the bare signal of
\* strategy.ema_crossover_signals (no setup, no metadata).
Signals(c) ==
    {Signal(s, "VWAP_RECLAIM", Bracket(Some(10), Some(8), Some(12), Some(14))) :
        s \in Spellings(c)}
    \cup (IF OneSymbol(c)
          THEN {Signal(s, "SIGMA_FADE", Bracket(Some(10), Some(11), Some(12), Some(14))) :
                    s \in c.symbols}
               \cup {Signal(s, "", NoMetadata) : s \in c.symbols}
          ELSE {})

\* What option_feedback(symbol) answers; it is not asked when the feedback is disabled
Feedback(call_volume, put_volume, call_iv) ==
    [call_volume |-> call_volume, put_volume |-> put_volume, call_iv |-> call_iv]
OptAnswers(c) ==
    IF c.enable_options_feedback
    THEN {None, Some(Feedback(1, 1, 10)), Some(Feedback(9, 1, 10)), Some(Feedback(1, 9, 90))}
    ELSE {None}

\* The reasons risk.evaluate returns
RiskAnswers == {<<>>, <<"Max concurrent positions reached">>}

ScanItems(c) ==
    {[sig |-> s, feedback |-> o, reasons |-> r] :
        s \in Signals(c), o \in OptAnswers(c), r \in RiskAnswers}

SeqsUpTo(S, n) == UNION {[1..k -> S] : k \in 0..n}

\* The orders in which a dict or the broker's position list yields the symbols
SymOrders(c) ==
    {o \in [1..Cardinality(c.symbols) -> c.symbols] :
        \A i, j \in DOMAIN o : i # j => o[i] # o[j]}

\* The symbols whose order call the broker fails; a dry run makes no such call
Downs(c) == IF c.dry_run THEN {{}} ELSE SUBSET c.symbols

\* -------------------------------------------------------------- deployments
\* high_water.json as an earlier run may have left it in STATE_DIR
Preloaded == [x \in {"AAPL"} |-> 12]

Deployments ==
    {<<Cfg(TRUE, None, {"AAPL"}), EmptyMap>>,
     <<Cfg(TRUE, None, {"AAPL"}), Preloaded>>,
     <<Cfg(FALSE, None, {"AAPL"}), EmptyMap>>,
     <<Cfg(FALSE, Some(TrailActPct), {"AAPL"}), Preloaded>>}

DeploymentsTwo == {<<Cfg(FALSE, None, AllSyms), EmptyMap>>}

\* main() up to its loop: settings(), the two loads, an empty trades table
\* No library call has been made
NoCall == [fn |-> "none"]

WorkerInit(D) ==
    \E d \in D :
        /\ cfg = d[1]
        /\ trades_json = EmptyMap
        /\ high_water_json = d[2]
        /\ ACTIVE_TRADES = load_trade_state(EmptyMap)
        /\ HIGH_WATER = load_high_water(d[2])
        /\ trades_table = EmptyMap
        /\ next_uuid = 1
        /\ now = 1
        /\ pc = "scan"
        /\ positions = [s \in d[1].symbols |-> [quantity |-> 0, cost_basis |-> CostBasis]]
        /\ quotes = [s \in d[1].symbols |-> None]
        /\ orders = <<>>
        /\ events = <<>>
        /\ raised = FALSE
        /\ scanned = <<>>
        /\ broker_errors = 0
        /\ trail_hi = EmptyMap
        /\ op = "start"
        /\ signal_total = <<>>
        /\ OPTIONS_CACHE = EmptyMap
        /\ risk_calls = 0

\* A fresh StrategyContext and no library call made
LibraryAtRest ==
    /\ last_signal_ts = EmptyMap
    /\ emitted = {}
    /\ call = NoCall

InitWith(D) == WorkerInit(D) /\ LibraryAtRest

Init == InitWith(Deployments)
InitTwo == InitWith(DeploymentsTwo)

\* ------------------------------------------------------------------ actions
\* A loop whose `try` does not catch: an exception of a pass ends main()
Ran_uncaught(m, name, items, next) ==
    /\ ACTIVE_TRADES' = m.trades
    /\ HIGH_WATER' = m.hw
    /\ trades_json' = m.tj
    /\ high_water_json' = m.hj
    /\ trades_table' = m.table
    /\ next_uuid' = m.uuid
    /\ orders' = m.orders
    /\ events' = m.events
    /\ raised' = m.raised
    /\ broker_errors' = m.errors
    /\ trail_hi' = m.hi
    /\ scanned' = items
    /\ signal_total' = m.counted
    /\ OPTIONS_CACHE' = m.cache
    /\ risk_calls' = m.risk_calls
    /\ op' = name
    /\ pc' = IF m.raised THEN "stopped" ELSE next
    /\ UNCHANGED <<cfg, now, positions, quotes, last_signal_ts, emitted, call>>
\* What a pass of main()'s loop leaves behind. An exception ends the cycle: main()
\* catches it around the four passes and goes to sleep.
Ran(m, name, items, next) ==
    /\ ACTIVE_TRADES' = m.trades
    /\ HIGH_WATER' = m.hw
    /\ trades_json' = m.tj
    /\ high_water_json' = m.hj
    /\ trades_table' = m.table
    /\ next_uuid' = m.uuid
    /\ orders' = m.orders
    /\ events' = m.events
    /\ raised' = m.raised
    /\ broker_errors' = m.errors
    /\ trail_hi' = m.hi
    /\ scanned' = items
    /\ signal_total' = m.counted
    /\ OPTIONS_CACHE' = m.cache
    /\ risk_calls' = m.risk_calls
    /\ op' = name
    /\ pc' = IF m.raised THEN "sleep" ELSE next
    /\ UNCHANGED <<cfg, now, positions, quotes, last_signal_ts, emitted, call>>

ScanOnce ==
    /\ pc = "scan"
    /\ \E items \in SeqsUpTo(ScanItems(cfg), MaxSignals), down \in Downs(cfg) :
        LET m == scan_once(Machine, items, cfg, now, quotes, down)
        IN  /\ m.uuid <= MaxTrades + 1
            /\ Ran(m, "scan_once", items, "partial")

PartialExitPass ==
    /\ pc = "partial"
    /\ \E syms \in SymOrders(cfg), down \in Downs(cfg) :
        Ran(partial_exit_pass(Machine, cfg, syms, positions, quotes, now, down),
            "partial_exit_pass", <<>>, "ema")

EmaExitPass ==
    /\ pc = "ema"
    /\ \E syms \in SymOrders(cfg), down \in Downs(cfg),
          bars \in [cfg.symbols -> IF OneSymbol(cfg) THEN BarsSet ELSE {BarsCrossDown, BarsNoCross}] :
        Ran(ema_exit_pass(Machine, cfg, syms, positions, bars, now, down),
            "ema_exit_pass", <<>>, "trailing")

TrailingExitPass ==
    /\ pc = "trailing"
    /\ \E syms \in SymOrders(cfg), down \in Downs(cfg) :
        Ran(trailing_exit_pass(Machine, cfg, syms, positions, quotes, now, down),
            "trailing_exit_pass", <<>>, "sleep")

\* What a step outside the four passes leaves of the last pass's record
Idle(name) ==
    /\ orders' = <<>>
    /\ events' = <<>>
    /\ raised' = FALSE
    /\ broker_errors' = 0
    /\ scanned' = <<>>
    /\ signal_total' = <<>>
    /\ risk_calls' = 0
    /\ op' = name
    /\ UNCHANGED <<last_signal_ts, emitted, call>>

\* A loop that starts the next cycle at once
Sleep_skipped ==
    /\ pc = "sleep"
    /\ now' = now
    /\ pc' = "scan"
    /\ Idle("sleep")
    /\ UNCHANGED <<cfg, OPTIONS_CACHE, ACTIVE_TRADES, HIGH_WATER, trades_json, high_water_json,
                   trades_table, next_uuid, positions, quotes, trail_hi>>
\* asyncio.sleep(max(5, int(cfg.scan_interval_sec)))
Sleep ==
    /\ pc = "sleep"
    /\ now + ScanIntervalMin <= MaxTime
    /\ now' = now + ScanIntervalMin
    /\ pc' = "scan"
    /\ Idle("sleep")
    /\ UNCHANGED <<cfg, OPTIONS_CACHE, ACTIVE_TRADES, HIGH_WATER, trades_json, high_water_json,
                   trades_table, next_uuid, positions, quotes, trail_hi>>

\* The process is stopped between two passes and main() starts again: the module
\* globals are rebuilt from the two files.
Restart ==
    /\ op # "restart"
    /\ ACTIVE_TRADES' = load_trade_state(trades_json)
    /\ HIGH_WATER' = load_high_water(high_water_json)
    /\ OPTIONS_CACHE' = EmptyMap
    /\ pc' = "scan"
    /\ Idle("restart")
    /\ UNCHANGED <<cfg, trades_json, high_water_json, trades_table, next_uuid, now,
                   positions, quotes, trail_hi>>

\* The broker account changes: fills, manual trades, bracket legs. A position that
\* is closed ends what the trailing pass has seen of it.
BrokerMoves ==
    /\ \E s \in cfg.symbols, n \in 0..MaxPos :
        /\ n # positions[s].quantity
        /\ positions' = [positions EXCEPT ![s].quantity = n]
        /\ trail_hi' = IF n = 0 /\ s \in DOMAIN trail_hi THEN MapPop(trail_hi, s) ELSE trail_hi
    /\ Idle("broker")
    /\ UNCHANGED <<cfg, OPTIONS_CACHE, ACTIVE_TRADES, HIGH_WATER, trades_json, high_water_json,
                   trades_table, next_uuid, now, pc, quotes>>

\* The market moves
MarketMoves ==
    /\ \E s \in cfg.symbols, p \in OptPrices(cfg) :
        /\ p # quotes[s]
        /\ quotes' = [quotes EXCEPT ![s] = p]
    /\ Idle("market")
    /\ UNCHANGED <<cfg, OPTIONS_CACHE, ACTIVE_TRADES, HIGH_WATER, trades_json, high_water_json,
                   trades_table, next_uuid, now, pc, positions, trail_hi>>

Next ==
    \/ ScanOnce
    \/ PartialExitPass
    \/ EmaExitPass
    \/ TrailingExitPass
    \/ Sleep
    \/ Restart
    \/ BrokerMoves
    \/ MarketMoves

Spec == Init /\ [][Next]_vars
SpecTwo == InitTwo /\ [][Next]_vars

\* ------------------------------------------------------------- properties
Tracked(s) == s \in DOMAIN ACTIVE_TRADES

\* The last pass logged an exit of symbol s for reason r
ExitLogged(evs, s, r) ==
    \E j \in DOMAIN evs :
        evs[j].kind = "order_exit" /\ evs[j].symbol = s /\ evs[j].detail[1] = r

\* The last pass sent the broker an order for symbol s with reason r
OrderSent(ords, s, r) ==
    \E j \in DOMAIN ords : ords[j].symbol = s /\ ords[j].reason = r

\* C1: while cfg.dry_run is set, no scan_once, partial_exit_pass, ema_exit_pass or
\* trailing_exit_pass ever calls the broker's place_equity_order: no order is
\* accepted and no order call fails, whatever the passes did before.
C1_DryRunNeverOrders == cfg.dry_run => (orders = <<>> /\ broker_errors = 0)

\* A dry-run pass that logged an exit
C1_Witness ==
    /\ cfg.dry_run
    /\ op = "partial_exit_pass"
    /\ ExitLogged(events, "AAPL", "partial_target")

\* What risk.evaluate said of a scanned signal
RiskFails(it) == Len(it.reasons) > 0
ItemPasses(it) == Len(it.reasons) = 0
PassingFor(items, s) ==
    {i \in DOMAIN items : ItemPasses(items[i]) /\ Upper(items[i].sig.symbol) = s}

\* Drops the events up to the next signal_generated
RECURSIVE ToNextSignal(_)
ToNextSignal(evs) ==
    IF evs = <<>> \/ Head(evs).kind = "signal_generated" THEN evs
    ELSE ToNextSignal(Tail(evs))

\* The ledger of a scan read against its signals, in order: every signal starts with
\* its signal_generated event; a risk-failed signal is followed by exactly its
\* signal_blocked event with the returned reasons and then by the next signal's
\* events; the ledger may end early only after a signal that passed, when the scan
\* raised.
RECURSIVE ScanLedger(_, _, _, _)
ScanLedger(items, evs, after_pass, scan_raised) ==
    IF items = <<>> THEN evs = <<>>
    ELSE IF evs = <<>> THEN after_pass /\ scan_raised
    ELSE LET it == Head(items)
             sym == Upper(it.sig.symbol)
         IN  /\ evs[1].kind = "signal_generated"
             /\ evs[1].symbol = sym
             /\ IF RiskFails(it)
                THEN /\ Len(evs) >= 2
                     /\ evs[2] = Event("signal_blocked", sym, it.reasons, 0)
                     /\ ScanLedger(Tail(items), SubSeq(evs, 3, Len(evs)), FALSE,
                                   scan_raised)
                ELSE ScanLedger(Tail(items), ToNextSignal(Tail(evs)), TRUE,
                                scan_raised)

\* C2: in scan_once a signal that risk.evaluate fails leads to no broker order and
\* no register_trade in that cycle (no order beyond the signals that passed, none
\* for a symbol without a passing signal, whose registry entry stays as it was, no
\* trade id drawn beyond the passing signals); it gets exactly one signal_blocked
\* event with the returned reasons, and the next signal is processed.
C2_RiskBlockedSignal ==
    [][op' = "scan_once" =>
        /\ ScanLedger(scanned', events', FALSE, raised')
        /\ Len(orders') <= Cardinality({i \in DOMAIN scanned' : ItemPasses(scanned'[i])})
        /\ next_uuid' - next_uuid
              <= Cardinality({i \in DOMAIN scanned' : ItemPasses(scanned'[i])})
        /\ \A s \in cfg.symbols :
              PassingFor(scanned', s) = {} =>
                 /\ ~\E j \in DOMAIN orders' : orders'[j].symbol = s
                 /\ (s \in DOMAIN ACTIVE_TRADES') = (s \in DOMAIN ACTIVE_TRADES)
                 /\ (s \in DOMAIN ACTIVE_TRADES => ACTIVE_TRADES'[s] = ACTIVE_TRADES[s])
                 /\ trades_table' = trades_table]_vars

\* A live scan of a risk-failed signal followed by one that passed and was ordered
C2_Witness ==
    /\ op = "scan_once"
    /\ ~cfg.dry_run
    /\ Len(scanned) = 2
    /\ RiskFails(scanned[1])
    /\ ItemPasses(scanned[2])
    /\ Len(orders) = 1
    /\ Len(events) = 5
    /\ events[2].kind = "signal_blocked"

\* C3: once partial_exited is set for a tracked symbol, a partial_exit_pass issues no
\* 'partial_target' exit for it (neither a broker order nor a logged exit), and the
\* flag stays set for as long as the symbol stays tracked.
C3_PartialExitOnce ==
    [][\A s \in cfg.symbols :
          (Tracked(s) /\ ACTIVE_TRADES[s].partial_exited) =>
             /\ (op' = "partial_exit_pass" =>
                    /\ ~OrderSent(orders', s, "partial_target")
                    /\ ~ExitLogged(events', s, "partial_target"))
             /\ (s \in DOMAIN ACTIVE_TRADES' => ACTIVE_TRADES'[s].partial_exited)]_vars

\* A live pass that found the flagged trade at its first target again and held
C3_Witness ==
    /\ op = "partial_exit_pass"
    /\ ~cfg.dry_run
    /\ Tracked("AAPL")
    /\ ACTIVE_TRADES["AAPL"].partial_exited
    /\ positions["AAPL"].quantity > 0
    /\ quotes["AAPL"] = ACTIVE_TRADES["AAPL"].target1
    /\ events = <<>>
    /\ ~raised

\* C4: after a partial exit the stored stop_price, in the registry and in
\* trades.json, is max(the stop before, entry_price).
C4_StopRatchet ==
    [][\A s \in cfg.symbols :
          (/\ op' = "partial_exit_pass"
           /\ Tracked(s)
           /\ ExitLogged(events', s, "partial_target")
           /\ s \in DOMAIN ACTIVE_TRADES') =>
             LET before == ACTIVE_TRADES[s]
                 stop0 == IF IsNone(before.stop_price) THEN 0 ELSE Val(before.stop_price)
                 want == Some(IF stop0 >= Val(before.entry_price)
                              THEN stop0 ELSE Val(before.entry_price))
             IN  /\ ACTIVE_TRADES'[s].stop_price = want
                 /\ ACTIVE_TRADES'[s].entry_price = before.entry_price
                 /\ s \in DOMAIN trades_json'
                 /\ trades_json'[s].stop_price = want]_vars

\* A partial exit that raised the stop from below the entry to the entry
C4_Witness ==
    /\ op = "partial_exit_pass"
    /\ ExitLogged(events, "AAPL", "partial_target")
    /\ Tracked("AAPL")
    /\ ACTIVE_TRADES["AAPL"].setup = "VWAP_RECLAIM"
    /\ ACTIVE_TRADES["AAPL"].stop_price = Some(10)
    /\ ACTIVE_TRADES["AAPL"].entry_price = Some(10)

\* C5: in live mode, when the broker snapshot reports no position for a tracked
\* symbol, partial_exit_pass removes the symbol from the registry and submits no
\* exit order for it in that pass.
C5_ClosedPositionRemoved ==
    [][\A s \in cfg.symbols :
          (/\ op' = "partial_exit_pass"
           /\ ~cfg.dry_run
           /\ Tracked(s)
           /\ positions[s].quantity <= 0) =>
             /\ s \notin DOMAIN ACTIVE_TRADES'
             /\ ~\E j \in DOMAIN orders' : orders'[j].symbol = s]_vars

\* C6: after every operation that changes the registry or the high-water map has
\* returned, the persisted copies equal the in-memory maps, so a restart between
\* two operations rebuilds exactly the maps held before it.
C6_PersistedEqualsMemory ==
    /\ trades_json = ACTIVE_TRADES
    /\ high_water_json = HIGH_WATER

\* What register_trade stores for a scanned signal that passed
Registered(it, c, q) ==
    LET plan == compute_order_plan(it.sig, c)
        key == Upper(it.sig.symbol)
        entry == IF c.dry_run THEN plan.entry_price
                 ELSE determine_entry_order(c, plan, get_quote_data(q, key),
                                            it.sig.type)[2]
    IN  [entry_price |-> entry, stop_price |-> plan.stop_price,
         target1 |-> plan.target1, target2 |-> plan.target2, qty |-> plan.qty,
         setup |-> IF it.sig.setup = "" THEN "UNKNOWN" ELSE it.sig.setup]

\* C7: the registry holds at most one entry per upper-cased execution symbol (its
\* keys are the upper-cased symbols); a scan that registers a signal for a symbol
\* already tracked overwrites that entry's prices, qty and setup with the signal's
\* plan, keeps its trade_id, and adds no second entry.
C7_OneEntryPerSymbol ==
    [][/\ DOMAIN ACTIVE_TRADES' \subseteq cfg.symbols
       /\ \A s \in cfg.symbols :
             (op' = "scan_once" /\ Tracked(s)) =>
                /\ DOMAIN ACTIVE_TRADES' = DOMAIN ACTIVE_TRADES
                /\ ACTIVE_TRADES'[s].trade_id = ACTIVE_TRADES[s].trade_id
                /\ ((/\ broker_errors' = 0
                     /\ \E i \in PassingFor(scanned', s) :
                           ~IsNone(Registered(scanned'[i], cfg, quotes).entry_price)) =>
                       \E i \in PassingFor(scanned', s) :
                          LET want == Registered(scanned'[i], cfg, quotes)
                              got == ACTIVE_TRADES'[s]
                          IN  /\ got.entry_price = want.entry_price
                              /\ got.stop_price = want.stop_price
                              /\ got.target1 = want.target1
                              /\ got.target2 = want.target2
                              /\ got.qty = want.qty
                              /\ got.setup = want.setup)]_vars

\* A live scan that registered "aapl" and then "AAPL" with another play: one entry,
\* the second play's
C7_Witness ==
    /\ op = "scan_once"
    /\ ~cfg.dry_run
    /\ Len(scanned) = 2
    /\ scanned[1].sig.symbol = "aapl"
    /\ scanned[2].sig.symbol = "AAPL"
    /\ ItemPasses(scanned[1])
    /\ ItemPasses(scanned[2])
    /\ Len(orders) = 2
    /\ DOMAIN ACTIVE_TRADES = {"AAPL"}
    /\ ACTIVE_TRADES["AAPL"].setup = "SIGMA_FADE"
    /\ ACTIVE_TRADES["AAPL"].stop_price = Some(11)

FullExitReasons == {"final_target", "timeout_exit", "ema_cross_down", "trailing_exit"}

\* C8: every full exit of a tracked trade, whatever its trigger, removes the symbol
\* from the registry and writes the exit reason and the exit timestamp onto the
\* trade's row of the trades table.
C8_FullExitRecorded ==
    [][\A s \in cfg.symbols : \A r \in FullExitReasons :
          (/\ Tracked(s)
           /\ ACTIVE_TRADES[s].trade_id \in DOMAIN trades_table
           /\ ExitLogged(events', s, r)) =>
             /\ s \notin DOMAIN ACTIVE_TRADES'
             /\ trades_table'[ACTIVE_TRADES[s].trade_id].exit_reason = r
             /\ ~IsNone(trades_table'[ACTIVE_TRADES[s].trade_id].exit_ts)]_vars

\* C9: with trailing enabled and the activation threshold unset or met by H, when
\* the last trailing_exit_pass saw a held symbol at price H and this pass sees it at
\* p <= H * (1 - trail_pct), and the broker accepts the order, this pass removes the
\* symbol from the high-water map and the registry and, live, sells the
\* broker-reported quantity.
C9_TrailingExitFires ==
    [][\A s \in cfg.symbols :
          (/\ op' = "trailing_exit_pass"
           /\ Truthy(cfg.trail_pct)
           /\ s \in DOMAIN trail_hi
           /\ positions[s].quantity > 0
           /\ ~IsNone(quotes[s])
           /\ Val(quotes[s]) * 100 <= trail_hi[s].price * (100 - Val(cfg.trail_pct))
           /\ \/ IsNone(cfg.trail_activation_pct)
              \/ trail_hi[s].price * 100
                    >= positions[s].cost_basis * (100 + Val(cfg.trail_activation_pct))
           /\ broker_errors' = 0) =>
             /\ s \notin DOMAIN HIGH_WATER'
             /\ s \notin DOMAIN ACTIVE_TRADES'
             /\ (~cfg.dry_run =>
                    \E j \in DOMAIN orders' :
                       orders'[j] = Order(s, "sell", positions[s].quantity,
                                          "trailing_exit"))]_vars

\* C10: across trailing_exit_pass runs that do not exit a symbol, the high-water
\* value the pass uses for the symbol's trigger never decreases.
C10_HighWaterMonotone ==
    [][\A s \in cfg.symbols :
          (/\ op' = "trailing_exit_pass"
           /\ s \in DOMAIN trail_hi
           /\ s \in DOMAIN trail_hi') =>
             trail_hi'[s].hi >= trail_hi[s].hi]_vars

\* The orders the last pass sent the broker for symbol s
OrdersSent(ords, s) == {j \in DOMAIN ords : ords[j].symbol = s}

\* C11: in any partial_exit_pass a tracked trade that is still held (any tracked
\* trade in a dry run) and whose time since entry_ts exceeds trade_timeout_min > 0
\* is sold out for what is left of it and removed from the registry by the end of
\* the pass. The exit may carry the reason timeout_exit or, with the price at the
\* second target, final_target; passes in which a broker call failed are left out.
C11_TimeoutExit ==
    [][\A s \in cfg.symbols :
          (/\ op' = "partial_exit_pass"
           /\ Tracked(s)
           /\ (cfg.dry_run \/ positions[s].quantity > 0)
           /\ cfg.trade_timeout_min > 0
           /\ now - ACTIVE_TRADES[s].entry_ts > cfg.trade_timeout_min
           /\ broker_errors' = 0) =>
             /\ s \notin DOMAIN ACTIVE_TRADES'
             /\ \/ ExitLogged(events', s, "timeout_exit")
                \/ ExitLogged(events', s, "final_target")]_vars

\* C12: within one partial_exit_pass at most one exit (partial_target, final_target
\* or timeout_exit) is submitted to the broker per tracked symbol.
C12_OneExitPerPass ==
    [][\A s \in cfg.symbols :
          op' = "partial_exit_pass" => Cardinality(OrdersSent(orders', s)) <= 1]_vars


\* ================================================================ strategy
\* ------------------------------------------------------------ library bounds
\* Snapshot timestamps run over 0..MaxTs, seconds
MaxTs == 3
\* cfg.vwap_cooldown_sec, and the largest cooldown a caller passes
Cooldown == 2

\* ------------------------------------------------------------ StrategyContext
\* The setups the context is asked about
CtxSetups == {"VWAP_RECLAIM", "EMA_CROSS"}
\* The spellings of one symbol callers pass
CtxSymbols == {"AAPL", "aapl"}
\* None, zero and the positive cooldowns
Cooldowns == {None, Some(0)} \cup {Some(c) : c \in 1..Cooldown}

\* One key per symbol, whatever the setup
symbol_key(setup, symbol) == Upper(symbol)
\* StrategyContext._key
_key(setup, symbol) == setup \o ":" \o Upper(symbol)

\* StrategyContext.can_emit
can_emit(ctx, setup, symbol, now_ts, cooldown_sec) ==
    IF ~Truthy(cooldown_sec) \/ Val(cooldown_sec) <= 0 THEN TRUE
    ELSE LET k == _key(setup, symbol) IN
         IF k \notin DOMAIN ctx THEN TRUE
         ELSE (now_ts - ctx[k]) >= Val(cooldown_sec)

\* A context that forgets the emission
forget_emit(ctx, setup, symbol, now_ts) == ctx
\* StrategyContext.mark_emit
mark_emit(ctx, setup, symbol, now_ts) == MapPut(ctx, _key(setup, symbol), now_ts)

\* The worker's variables, which no library call touches
WorkerAtRest == WorkerInit(DeploymentsTwo)

\* ctx.mark_emit(setup, symbol, now_ts)
CtxMarkEmit ==
    \E setup \in CtxSetups, symbol \in CtxSymbols, t \in 0..MaxTs :
        /\ last_signal_ts' = mark_emit(last_signal_ts, setup, symbol, t)
        /\ call' = [fn |-> "mark_emit", setup |-> setup, symbol |-> symbol, now_ts |-> t]
        /\ UNCHANGED <<worker_vars, emitted>>

\* ctx.can_emit(setup, symbol, now_ts, cooldown_sec)
CtxCanEmit ==
    \E setup \in CtxSetups, symbol \in CtxSymbols, t \in 0..MaxTs, c \in Cooldowns :
        /\ call' = [fn |-> "can_emit", setup |-> setup, symbol |-> symbol, now_ts |-> t,
                    cooldown_sec |-> c,
                    out |-> can_emit(last_signal_ts, setup, symbol, t, c)]
        /\ UNCHANGED <<worker_vars, last_signal_ts, emitted>>

\* A fresh context, before any library call
InitLibrary == WorkerAtRest /\ LibraryAtRest

SpecContext == InitLibrary /\ [][CtxMarkEmit \/ CtxCanEmit]_vars

\* C13: right after mark_emit(setup, symbol, t0), can_emit(setup, symbol, t0 + d, c) with
\* c > 0 is false for 0 <= d < c and true for d >= c, and can_emit for any other setup on the
\* same symbol answers what it answered before the mark_emit.
C13_CooldownAfterMark ==
    [][call'.fn = "mark_emit" =>
          /\ \A c \in 1..Cooldown, d \in 0..(MaxTs + Cooldown) :
                can_emit(last_signal_ts', call'.setup, call'.symbol,
                         call'.now_ts + d, Some(c)) = (d >= c)
          /\ \A o \in CtxSetups \ {call'.setup}, t \in 0..MaxTs, c \in Cooldowns :
                can_emit(last_signal_ts', o, call'.symbol, t, c)
                    = can_emit(last_signal_ts, o, call'.symbol, t, c)]_vars

\* A can_emit refused inside the cooldown of its setup while another setup on the same
\* symbol has been marked too
C13_Witness ==
    /\ call.fn = "can_emit"
    /\ ~call.out
    /\ call.setup = "VWAP_RECLAIM"
    /\ "EMA_CROSS:AAPL" \in DOMAIN last_signal_ts
    /\ "VWAP_RECLAIM:AAPL" \in DOMAIN last_signal_ts
    /\ last_signal_ts["EMA_CROSS:AAPL"] # last_signal_ts["VWAP_RECLAIM:AAPL"]


\* --------------------------------------------------------------------- plays
\* config.py: VWAP_MIN_RVOL default 1.1, in tenths
VwapMinRvol == 11
\* SigmaFadePlay: the literal 0.9, in tenths
SigmaMinRvol == 9
\* config.py: POWER_HOUR_SYMBOLS default
PowerHourSymbols == {"SPX"}

\* The optional fields of a FeatureSnapshot the plays read. Prices and ATR are whole
\* numbers, relative volume is in tenths, the slope is a signed whole number.
SnapshotFields ==
    {"last_price", "prev_close", "vwap", "sigma_lower", "ema20", "ema50", "ema20_prev",
     "ema50_prev", "ema20_slope", "relative_volume", "hod", "atr14"}

\* What evaluate hands back: the signals, or an exception, and the context it leaves
Returned(ctx, signals) == [raised |-> FALSE, signals |-> signals, ctx |-> ctx]
Raised(ctx) == [raised |-> TRUE, signals |-> <<>>, ctx |-> ctx]

\* StrategySignal with the bracket in its metadata, prices in tenths
StrategySignal(snap, setup, stop_price, target1, target2) ==
    [symbol |-> snap.symbol, setup |-> setup, side |-> "buy", qty |-> DefaultQty,
     entry_price |-> 10 * Val(snap.last_price), stop_price |-> stop_price,
     target1 |-> target1, target2 |-> target2, atr |-> snap.atr14]

\* entry -/+ multiplier * atr, in tenths
AtrBelow(snap, mult) == Some(10 * Val(snap.last_price) - mult * Val(snap.atr14))
AtrAbove(snap, mult) == Some(10 * Val(snap.last_price) + mult * Val(snap.atr14))

\* `x if snapshot.atr14 else None`
IfAtr(snap, x) == IF Truthy(snap.atr14) THEN x ELSE None

\* LegacyEmaCrossoverPlay.evaluate
LegacyEmaCross_evaluate(snap, ctx) ==
    IF IsNone(snap.ema20) \/ IsNone(snap.ema50) THEN Returned(ctx, <<>>)
    ELSE IF IsNone(snap.ema20_prev) \/ IsNone(snap.ema50_prev) THEN Returned(ctx, <<>>)
    ELSE LET diff_prev == Val(snap.ema20_prev) - Val(snap.ema50_prev)
             diff_now == Val(snap.ema20) - Val(snap.ema50)
         IN  IF /\ diff_prev <= 0
                /\ 0 < diff_now
                /\ Truthy(snap.last_price)
                /\ Val(snap.last_price) > Val(snap.ema50)
             THEN Returned(ctx, <<StrategySignal(snap, "EMA_CROSS",
                                     IfAtr(snap, AtrBelow(snap, RiskStopAtrMultiplier)),
                                     IfAtr(snap, AtrAbove(snap, TargetOneAtrMultiplier)),
                                     IfAtr(snap, AtrAbove(snap, TargetTwoAtrMultiplier)))>>)
             ELSE Returned(ctx, <<>>)

\* The slope test of a play that lets a flat EMA20 through
slope_rejects_negative(snap) == ~IsNone(snap.ema20_slope) /\ Val(snap.ema20_slope) < 0
\* VWAPReclaimPlay.evaluate: `ema20_slope is not None and ema20_slope <= 0`
slope_rejects(snap) == ~IsNone(snap.ema20_slope) /\ Val(snap.ema20_slope) <= 0

\* VWAPReclaimPlay.evaluate; before_start is `now_et < start_dt` on the wall clock
VWAPReclaim_evaluate(snap, ctx, before_start) ==
    IF IsNone(snap.last_price) \/ IsNone(snap.prev_close) \/ IsNone(snap.vwap)
    THEN Returned(ctx, <<>>)
    ELSE IF ~(Val(snap.prev_close) < Val(snap.vwap) /\ Val(snap.last_price) > Val(snap.vwap))
    THEN Returned(ctx, <<>>)
    ELSE IF ~IsNone(snap.ema20) /\ ~IsNone(snap.ema50) /\ Val(snap.ema20) <= Val(snap.ema50)
    THEN Returned(ctx, <<>>)
    ELSE IF slope_rejects(snap)
    THEN Returned(ctx, <<>>)
    ELSE IF ~IsNone(snap.relative_volume) /\ Val(snap.relative_volume) < VwapMinRvol
    THEN Returned(ctx, <<>>)
    ELSE IF ~can_emit(ctx, "VWAP_RECLAIM", snap.symbol, snap.as_of, Some(Cooldown))
    THEN Returned(ctx, <<>>)
    ELSE IF Upper(snap.symbol) \in PowerHourSymbols /\ before_start
    THEN Returned(ctx, <<>>)
    ELSE Returned(mark_emit(ctx, "VWAP_RECLAIM", snap.symbol, snap.as_of),
                  <<StrategySignal(snap, "VWAP_RECLAIM",
                        IfAtr(snap, AtrBelow(snap, RiskStopAtrMultiplier)),
                        IfAtr(snap, AtrAbove(snap, TargetOneAtrMultiplier)),
                        IfAtr(snap, AtrAbove(snap, TargetTwoAtrMultiplier)))>>)

\* The tail SigmaFadePlay and HodFailurePlay share: the EMA test, the cooldown, the signal
ema_cooldown_signal(snap, ctx, setup) ==
    IF ~IsNone(snap.ema20) /\ IsNone(snap.ema50)
    THEN Raised(ctx)    \* `snapshot.ema20 < snapshot.ema50` with ema50 None: TypeError
    ELSE IF ~IsNone(snap.ema20) /\ Val(snap.ema20) < Val(snap.ema50)
    THEN Returned(ctx, <<>>)
    ELSE IF ~can_emit(ctx, setup, snap.symbol, snap.as_of, Some(Cooldown))
    THEN Returned(ctx, <<>>)
    ELSE Returned(mark_emit(ctx, setup, snap.symbol, snap.as_of),
                  <<StrategySignal(snap, setup,
                        AtrBelow(snap, RiskStopAtrMultiplier),
                        AtrAbove(snap, TargetOneAtrMultiplier),
                        AtrAbove(snap, TargetTwoAtrMultiplier))>>)

\* SigmaFadePlay.evaluate
SigmaFade_evaluate(snap, ctx) ==
    IF IsNone(snap.last_price) \/ IsNone(snap.atr14) THEN Returned(ctx, <<>>)
    ELSE IF IsNone(snap.sigma_lower) THEN Returned(ctx, <<>>)
    ELSE IF Val(snap.last_price) > Val(snap.sigma_lower) THEN Returned(ctx, <<>>)
    ELSE IF ~IsNone(snap.relative_volume) /\ Val(snap.relative_volume) < SigmaMinRvol
    THEN Returned(ctx, <<>>)
    ELSE ema_cooldown_signal(snap, ctx, "SIGMA_FADE")

\* HodFailurePlay.evaluate; `pullback < 0.5 * atr` is 2 * pullback < atr
HodFailure_evaluate(snap, ctx) ==
    IF IsNone(snap.last_price) \/ IsNone(snap.atr14) \/ IsNone(snap.hod) \/ IsNone(snap.vwap)
    THEN Returned(ctx, <<>>)
    ELSE IF 2 * (Val(snap.hod) - Val(snap.last_price)) < Val(snap.atr14)
    THEN Returned(ctx, <<>>)
    ELSE IF Val(snap.last_price) < Val(snap.vwap) THEN Returned(ctx, <<>>)
    ELSE ema_cooldown_signal(snap, ctx, "HOD_FAIL")

\* play.evaluate(snapshot, session, ctx) for the play of that name
evaluate(setup, snap, ctx, before_start) ==
    CASE setup = "VWAP_RECLAIM" -> VWAPReclaim_evaluate(snap, ctx, before_start)
      [] setup = "SIGMA_FADE" -> SigmaFade_evaluate(snap, ctx)
      [] setup = "HOD_FAIL" -> HodFailure_evaluate(snap, ctx)
      [] setup = "EMA_CROSS" -> LegacyEmaCross_evaluate(snap, ctx)


\* ----------------------------------------------------------------- snapshots
\* A snapshot in which price has reclaimed VWAP half an ATR under the high of day and
\* EMA20 has crossed above EMA50
ReclaimSnapshot(symbol, as_of) ==
    [symbol |-> symbol, as_of |-> as_of, last_price |-> Some(12), prev_close |-> Some(9),
     vwap |-> Some(10), sigma_lower |-> Some(8), ema20 |-> Some(11), ema50 |-> Some(10),
     ema20_prev |-> Some(9), ema50_prev |-> Some(10), ema20_slope |-> Some(1),
     relative_volume |-> Some(12), hod |-> Some(13), atr14 |-> Some(2)]

\* A snapshot in which price sits on the lower sigma band
FadeSnapshot(symbol, as_of) ==
    [ReclaimSnapshot(symbol, as_of) EXCEPT !.last_price = Some(8)]

\* The snapshots successive scan ticks hand the plays for one symbol
TickSnapshots ==
    UNION {{ReclaimSnapshot("SPX", t), FadeSnapshot("SPX", t)} : t \in 0..MaxTs}

\* The plays that share cfg.vwap_cooldown_sec
CooldownSetups == {"VWAP_RECLAIM", "SIGMA_FADE", "HOD_FAIL"}

\* The emissions a call adds to the history
Emissions(signals, as_of) ==
    {[setup |-> signals[i].setup, symbol |-> signals[i].symbol, ts |-> as_of] :
        i \in DOMAIN signals}

\* play.evaluate(snapshot, session, ctx) on the shared context
Evaluated(setup, snap, before_start) ==
    LET r == evaluate(setup, snap, last_signal_ts, before_start) IN
    /\ last_signal_ts' = r.ctx
    /\ emitted' = emitted \cup Emissions(r.signals, snap.as_of)
    /\ call' = [fn |-> "evaluate", setup |-> setup, snapshot |-> snap,
                before_start |-> before_start, raised |-> r.raised, signals |-> r.signals]
    /\ UNCHANGED worker_vars

\* The wall clock readings a play can meet: only VWAPReclaimPlay reads the clock
Clock(setup) == IF setup = "VWAP_RECLAIM" THEN BOOLEAN ELSE {FALSE}

\* One play evaluates the snapshot of one tick
CooldownEvaluate ==
    \E setup \in CooldownSetups, snap \in TickSnapshots :
        \E before_start \in Clock(setup) : Evaluated(setup, snap, before_start)

SpecCooldown == InitLibrary /\ [][CooldownEvaluate]_vars

Apart(a, b) == IF a >= b THEN a - b ELSE b - a

\* C14: over any sequence of evaluate calls of the cooldown plays on one StrategyContext,
\* a signal is emitted only when every earlier signal for the same (setup, symbol) has a
\* snapshot timestamp at least the cooldown away, and an evaluate of the very snapshot that
\* has just produced a signal returns [].
C14_SignalsCooldownApart ==
    [][/\ \A e \in emitted, n \in Emissions(call'.signals, call'.snapshot.as_of) :
            (e.setup = n.setup /\ e.symbol = n.symbol) => Apart(n.ts, e.ts) >= Cooldown
       /\ (/\ call.fn = "evaluate"
           /\ call.signals # <<>>
           /\ call'.setup = call.setup
           /\ call'.snapshot = call.snapshot) => call'.signals = <<>>]_vars

\* Two signals of one setup and symbol in the history, and a third evaluate of a firing
\* snapshot refused inside the cooldown of the later one
C14_Witness ==
    /\ call.fn = "evaluate"
    /\ call.setup = "SIGMA_FADE"
    /\ call.snapshot = FadeSnapshot("SPX", MaxTs - 1)
    /\ call.signals = <<>>
    /\ \E a, b \in emitted :
          /\ a.setup = "SIGMA_FADE" /\ b.setup = "SIGMA_FADE"
          /\ a.ts = 0 /\ b.ts = MaxTs


\* ------------------------------------------------------- one evaluate per input
PlaySetups == {"VWAP_RECLAIM", "SIGMA_FADE", "HOD_FAIL", "EMA_CROSS"}

\* snap with the fields in S null
Nulled(snap, S) == [f \in DOMAIN snap |-> IF f \in S THEN None ELSE snap[f]]

\* A context in which every play emitted for the symbol at time 0
MarkedContext(symbol) == [k \in {_key(p, symbol) : p \in PlaySetups} |-> 0]

\* The inputs of one evaluate, held in call until a play takes them: the firing snapshots
\* with every subset of the optional fields null on a fresh context, and snapshots around
\* every threshold VWAPReclaimPlay compares, on a fresh or a marked context under both
\* readings of the wall clock
InitPlays ==
    /\ WorkerAtRest
    /\ emitted = {}
    /\ \/ \E base \in {ReclaimSnapshot("AAPL", Cooldown), FadeSnapshot("AAPL", Cooldown)},
             S \in SUBSET SnapshotFields :
            /\ last_signal_ts = EmptyMap
            /\ call = [fn |-> "snapshot", snapshot |-> Nulled(base, S),
                       before_start |-> FALSE]
       \/ \E y \in {"AAPL", "SPX"}, t \in {Cooldown - 1, Cooldown}, marked \in BOOLEAN,
             before_start \in BOOLEAN,
             l \in {None, Some(10), Some(12)}, p \in {None, Some(9), Some(11)},
             v \in {None, Some(10)}, e20 \in {None, Some(10), Some(11)},
             e50 \in {None, Some(10)}, sl \in {None, Some(-1), Some(0), Some(1)},
             rv \in {None, Some(VwapMinRvol - 1), Some(VwapMinRvol)},
             a \in {None, Some(0), Some(2)} :
            /\ marked \/ t = Cooldown
            /\ last_signal_ts = IF marked THEN MarkedContext(y) ELSE EmptyMap
            /\ call = [fn |-> "snapshot", before_start |-> before_start,
                       snapshot |-> [ReclaimSnapshot(y, t) EXCEPT
                                        !.last_price = l, !.prev_close = p, !.vwap = v,
                                        !.ema20 = e20, !.ema50 = e50, !.ema20_slope = sl,
                                        !.relative_volume = rv, !.atr14 = a]]

\* One play evaluates the snapshot
PlayEvaluate ==
    /\ call.fn = "snapshot"
    /\ \E setup \in PlaySetups : Evaluated(setup, call.snapshot, call.before_start)

SpecPlays == InitPlays /\ [][PlayEvaluate]_vars


\* The step is an evaluate of VWAPReclaimPlay with the cooldown of its symbol elapsed
\* and the power-hour gate open
ReclaimEvaluatedFreely ==
    /\ call.fn = "snapshot"
    /\ call'.fn = "evaluate"
    /\ call'.setup = "VWAP_RECLAIM"
    /\ LET k == _key("VWAP_RECLAIM", call.snapshot.symbol) IN
       \/ k \notin DOMAIN last_signal_ts
       \/ call.snapshot.as_of - last_signal_ts[k] >= Cooldown
    /\ ~(Upper(call.snapshot.symbol) \in PowerHourSymbols /\ call.before_start)

\* prev_close < vwap < last_price, and ema20 > ema50 when both are present
ReclaimedWithTrend(snap) ==
    /\ ~IsNone(snap.prev_close) /\ ~IsNone(snap.vwap) /\ ~IsNone(snap.last_price)
    /\ Val(snap.prev_close) < Val(snap.vwap)
    /\ Val(snap.vwap) < Val(snap.last_price)
    /\ (~IsNone(snap.ema20) /\ ~IsNone(snap.ema50)) => Val(snap.ema20) > Val(snap.ema50)

\* relative_volume >= vwap_min_rvol when present
EnoughVolume(snap) == ~IsNone(snap.relative_volume) => Val(snap.relative_volume) >= VwapMinRvol

\* Exactly one buy signal
OneBuy(signals) == Len(signals) = 1 /\ signals[1].side = "buy"

\* The signal carries a stop and both targets
Bracketed(sig) == ~IsNone(sig.stop_price) /\ ~IsNone(sig.target1) /\ ~IsNone(sig.target2)

NeededFields(setup) ==
    CASE setup = "VWAP_RECLAIM" -> {"last_price", "prev_close", "vwap"}
      [] setup = "SIGMA_FADE" -> {"last_price", "atr14", "sigma_lower"}
      [] setup = "HOD_FAIL" -> {"last_price", "atr14", "hod", "vwap"}
      [] setup = "EMA_CROSS" -> {"ema20", "ema50", "ema20_prev", "ema50_prev", "last_price"}

\* C16: for each play and every snapshot in which any subset of the optional fields is
\* null, evaluate returns a list without raising, and returns [] whenever a field its rule
\* needs to compare is null.
C16_NullFieldsNeverRaise ==
    call.fn = "evaluate" =>
        /\ ~call.raised
        /\ (\E f \in NeededFields(call.setup) : IsNone(call.snapshot[f])) => call.signals = <<>>


\* ================================================================= sessions
\* Setup names as a sessions file or a caller may spell them
RawSetups ==
    {"VWAP_RECLAIM", "vwap_reclaim", "SIGMA_FADE", " SIGMA_FADE ", "HOD_FAIL", "EMA_CROSS", ""}

\* (s or "").strip().upper() on those spellings
StripUpper(s) ==
    CASE s = "vwap_reclaim" -> "VWAP_RECLAIM"
      [] s = " SIGMA_FADE " -> "SIGMA_FADE"
      [] OTHER -> s

\* session._normalize_set
_normalize_set(items) == {StripUpper(s) : s \in {x \in items : StripUpper(x) # ""}}

\* session._build_session: the allow and ban sets of the policy
_build_session(allow, ban) ==
    [allow_setups |-> _normalize_set(allow), ban_setups |-> _normalize_set(ban)]

\* A policy whose allow-set overrides its ban-set
allow_wins(policy, setup) ==
    LET setup_norm == StripUpper(setup) IN
    IF setup_norm = "" THEN FALSE
    ELSE IF policy.allow_setups # {} THEN setup_norm \in policy.allow_setups
    ELSE setup_norm \notin policy.ban_setups
\* SessionPolicy.allows_setup
allows_setup(policy, setup) ==
    LET setup_norm == StripUpper(setup) IN
    IF setup_norm = "" THEN FALSE
    ELSE IF setup_norm \in policy.ban_setups THEN FALSE
    ELSE IF policy.allow_setups # {} /\ setup_norm \notin policy.allow_setups THEN FALSE
    ELSE TRUE

\* Play.allowed_in; session is an Optional[SessionPolicy]
allowed_in(name, session) == IF IsNone(session) THEN TRUE ELSE allows_setup(Val(session), name)

\* StrategyEngine.plays, in order
EnginePlays == <<"VWAP_RECLAIM", "SIGMA_FADE", "HOD_FAIL", "EMA_CROSS">>

\* StrategySignal.to_order: the dict scan_once is handed, the order type added to the
\* signal's fields and its metadata
to_order(sig) ==
    [k \in DOMAIN sig \cup {"type"} |-> IF k = "type" THEN "market" ELSE sig[k]]

\* StrategyEngine.generate_signals for one symbol from play i on: the plays it evaluated,
\* the signals it collected and the context it leaves; an exception in a play ends it
RECURSIVE run_plays(_, _, _, _, _)
run_plays(i, session, snap, before_start, acc) ==
    IF i > Len(EnginePlays) \/ acc.raised THEN acc
    ELSE IF ~allowed_in(EnginePlays[i], session)
    THEN run_plays(i + 1, session, snap, before_start, acc)
    ELSE LET r == evaluate(EnginePlays[i], snap, acc.ctx, before_start) IN
         run_plays(i + 1, session, snap, before_start,
                   [raised |-> r.raised, ctx |-> r.ctx,
                    signals |-> acc.signals \o
                                [j \in DOMAIN r.signals |-> to_order(r.signals[j])],
                    evaluated |-> Append(acc.evaluated, EnginePlays[i])])

generate_signals(session, snap, ctx, before_start) ==
    run_plays(1, session, snap, before_start,
              [raised |-> FALSE, ctx |-> ctx, signals |-> <<>>, evaluated |-> <<>>])

\* The environment's SYMBOL_EXECUTION_MAP, source symbol -> execution symbol: unset, or
\* the index routed to its ETF
ExecutionMaps == {EmptyMap, [s \in {"SPX"} |-> "SPY"]}

\* The inputs of one call: a policy built from a sessions file and a setup name to ask
\* about, or the current session (none outside every window), the snapshot of the tick and
\* the wall clock
InitSession ==
    /\ WorkerAtRest
    /\ last_signal_ts = EmptyMap
    /\ emitted = {}
    /\ \E allow \in SUBSET RawSetups, ban \in SUBSET RawSetups :
          \/ \E setup \in RawSetups :
                call = [fn |-> "policy", policy |-> _build_session(allow, ban),
                        setup |-> setup]
          \/ \E snap \in {ReclaimSnapshot("SPX", 0), FadeSnapshot("SPX", 0)},
                before_start \in BOOLEAN,
                session \in {None, Some(_build_session(allow, ban))},
                execution_map \in ExecutionMaps :
                call = [fn |-> "tick", session |-> session, snapshot |-> snap,
                        before_start |-> before_start, execution_map |-> execution_map]

\* policy.allows_setup(setup)
AllowsSetup ==
    /\ call.fn = "policy"
    /\ call' = [fn |-> "allows_setup", policy |-> call.policy, setup |-> call.setup,
                out |-> allows_setup(call.policy, call.setup)]
    /\ UNCHANGED <<worker_vars, last_signal_ts, emitted>>

\* engine.generate_signals() for the symbol of the snapshot
GenerateSignals ==
    /\ call.fn = "tick"
    /\ LET r == generate_signals(call.session, call.snapshot, last_signal_ts,
                                 call.before_start) IN
       /\ last_signal_ts' = r.ctx
       /\ emitted' = emitted \cup Emissions(r.signals, call.snapshot.as_of)
       /\ call' = [fn |-> "generate_signals", session |-> call.session,
                   snapshot |-> call.snapshot, execution_map |-> call.execution_map,
                   raised |-> r.raised,
                   signals |-> r.signals, evaluated |-> r.evaluated]
    /\ UNCHANGED worker_vars

SpecSession == InitSession /\ [][AllowsSetup \/ GenerateSignals]_vars

\* The members of a sequence
Range(q) == {q[i] : i \in DOMAIN q}

\* C17: allows_setup(name) is false whenever the name is in the ban-set, also when it is in
\* the allow-set; with an empty allow-set every name that is not banned is allowed; with a
\* non-empty allow-set exactly its non-banned members are allowed (names compared as the
\* policy normalises them, a blank name is no setup); with no current session the engine
\* evaluates every play, and with one it never evaluates a play the session bans.
C17_BanWinsOverAllow ==
    /\ call.fn = "allows_setup" =>
          LET name == StripUpper(call.setup)
              allow == call.policy.allow_setups
              ban == call.policy.ban_setups
          IN  /\ name \in ban => ~call.out
              /\ (allow = {} /\ name # "" /\ name \notin ban) => call.out
              /\ allow # {} => (call.out <=> name \in allow \ ban)
    /\ (call.fn = "generate_signals" /\ ~call.raised) =>
          IF IsNone(call.session)
          THEN call.evaluated = EnginePlays
          ELSE Range(call.evaluated) \cap Val(call.session).ban_setups = {}

\* A name spelled in lower case that the policy both allows and bans was refused
C17_Witness ==
    /\ call.fn = "allows_setup"
    /\ call.setup = "vwap_reclaim"
    /\ "VWAP_RECLAIM" \in call.policy.allow_setups \cap call.policy.ban_setups
    /\ ~call.out


\* ===================================================================== risk
\* What a provider call came to: the payload, or the exception left after the retries of
\* tradier._request: TradierHTTPError for an HTTP status, the httpx exception for a
\* timeout or a transport failure
ProviderErrors == {"TradierHTTPError", "TimeoutException"}

\* A quotes payload, or the failure of get_quote
Quote(err, last, close) == [err |-> err, last |-> last, close |-> close]

\* tradier.last_trade_price: the first of last, close that is a non-zero number; only
\* TradierHTTPError is caught
last_trade_price(quote) ==
    IF quote.err = "TradierHTTPError" THEN [raised |-> FALSE, price |-> None]
    ELSE IF quote.err # "" THEN [raised |-> TRUE, price |-> None]
    ELSE [raised |-> FALSE,
          price |-> IF Truthy(quote.last) THEN quote.last
                    ELSE IF Truthy(quote.close) THEN quote.close ELSE None]

\* risk.evaluate, the fallback: `float(qq.get("last") or 0) or None` under `except Exception`
quote_last(quote) == IF quote.err = "" /\ Truthy(quote.last) THEN quote.last ELSE None

\* A check that stops reporting once a reason is known
first_reason_only(reasons, violated, text) ==
    IF violated /\ reasons = <<>> THEN Append(reasons, text) ELSE reasons
\* `if <violated>: reasons.append(text)`
add_reason(reasons, violated, text) == IF violated THEN Append(reasons, text) ELSE reasons

\* A cap that also refuses an order exactly at the cap
at_cap(notional, cap) == notional >= cap
\* `notional > float(cap)`
over_cap(notional, cap) == notional > cap

\* risk.evaluate(signal) under the configuration and the provider answers in i; symbols are
\* upper-cased as the code does. Returns the exception flag, (passed, reasons) and the
\* price the notional check resolved.
risk_evaluate(i) ==
    LET sym == Upper(i.symbol)
        \* portfolio_snapshot: a failed fetch leaves the list empty
        held == IF IsNone(i.positions) THEN <<>> ELSE Val(i.positions)
        open_pos == {k \in DOMAIN held : held[k].quantity # 0}
        same_sym_pos == {k \in open_pos : Upper(held[k].symbol) = sym}
        open_orders == IF IsNone(i.open_orders) THEN 0 ELSE Val(i.open_orders)
        r1 == add_reason(<<>>, ~i.in_window, "Outside trading window")
        r2 == add_reason(r1, sym \in i.blacklist, "Symbol blacklisted")
        r3 == add_reason(r2, i.whitelist # {} /\ sym \notin i.whitelist,
                         "Symbol not in whitelist")
        r4 == add_reason(r3, Cardinality(open_pos) >= i.max_concurrent,
                         "Max concurrent positions reached")
        r5 == add_reason(r4, open_orders >= i.max_open_orders, "Max open orders reached")
        r6 == add_reason(r5, /\ i.max_per_symbol > 0
                             /\ Cardinality(same_sym_pos) >= i.max_per_symbol,
                         "Max positions for symbol reached")
        first == last_trade_price(i.quote1)
        price == IF IsNone(i.cap) THEN None
                 ELSE IF ~IsNone(first.price) THEN first.price
                 ELSE quote_last(i.quote2)
        r7 == add_reason(r6, /\ ~IsNone(i.cap)
                             /\ Truthy(price)
                             /\ over_cap(Val(price) * i.qty, Val(i.cap)),
                         "Order notional exceeds cap")
        r8 == add_reason(r7, /\ ~IsNone(i.min_cash)
                             /\ ~i.balances.failed
                             /\ ~IsNone(i.balances.cash)
                             /\ Val(i.balances.cash) < Val(i.min_cash),
                         "Cash below minimum")
    IN  IF ~IsNone(i.cap) /\ first.raised
        THEN [raised |-> TRUE, passed |-> FALSE, reasons |-> <<>>, price |-> None]
        ELSE [raised |-> FALSE, passed |-> (Len(r8) = 0), reasons |-> r8, price |-> price]

\* One held position as the broker lists it
Position(symbol, quantity) == [symbol |-> symbol, quantity |-> quantity]

\* The inputs of one risk.evaluate: the clock against the trading window, the symbol
\* lists, the limits, the cap and the minimum cash of the configuration, the quantity of
\* the signal, and what each provider call comes to
InitRisk ==
    /\ WorkerAtRest
    /\ last_signal_ts = EmptyMap
    /\ emitted = {}
    /\ \E in_window \in BOOLEAN, blacklist \in {{}, {"AAPL"}},
          whitelist \in {{}, {"AAPL"}, {"SPY"}},
          held \in {None, Some(<<>>), Some(<<Position("aapl", 1)>>),
                         Some(<<Position("AAPL", 0)>>),
                         Some(<<Position("SPY", 1), Position("AAPL", 1)>>)},
          max_concurrent \in {1, 2}, max_per_symbol \in {0, 1},
          open_orders \in {None, Some(0), Some(1)},
          cap \in {None, Some(20)}, qty \in {0, 2, 3},
          quote1 \in {Quote(e, None, None) : e \in ProviderErrors}
                        \cup {Quote("", Some(10), None), Quote("", Some(0), Some(10)),
                              Quote("", None, None)},
          quote2 \in {Quote(e, None, None) : e \in ProviderErrors}
                        \cup {Quote("", Some(10), None), Quote("", Some(0), Some(10))},
          min_cash \in {None, Some(5)},
          balances \in {[failed |-> TRUE, cash |-> None], [failed |-> FALSE, cash |-> None],
                        [failed |-> FALSE, cash |-> Some(4)],
                        [failed |-> FALSE, cash |-> Some(5)]} :
          call = [fn |-> "signal", symbol |-> "aapl", qty |-> qty, in_window |-> in_window,
                  blacklist |-> blacklist, whitelist |-> whitelist,
                  positions |-> held, max_concurrent |-> max_concurrent,
                  max_per_symbol |-> max_per_symbol, open_orders |-> open_orders,
                  max_open_orders |-> 1, cap |-> cap, quote1 |-> quote1, quote2 |-> quote2,
                  min_cash |-> min_cash, balances |-> balances]

\* ok, reasons = await risk.evaluate(signal)
RiskEvaluate ==
    /\ call.fn = "signal"
    /\ call' = [fn |-> "risk.evaluate", input |-> call, out |-> risk_evaluate(call)]
    /\ UNCHANGED <<worker_vars, last_signal_ts, emitted>>

SpecRisk == InitRisk /\ [][RiskEvaluate]_vars


\* The open positions the broker reported, none when the fetch failed
OpenHeld(i) ==
    IF IsNone(i.positions) THEN {}
    ELSE {k \in DOMAIN Val(i.positions) : Val(i.positions)[k].quantity # 0}

\* The rules the signal and the portfolio of input i violate, by the reason each one
\* gives; price is the resolved last price, if any
Violations(i, price) ==
    {r \in {"Outside trading window", "Symbol blacklisted", "Symbol not in whitelist",
            "Max concurrent positions reached", "Max open orders reached",
            "Max positions for symbol reached", "Order notional exceeds cap",
            "Cash below minimum"} :
        CASE r = "Outside trading window" -> ~i.in_window
          [] r = "Symbol blacklisted" -> "AAPL" \in i.blacklist
          [] r = "Symbol not in whitelist" -> i.whitelist # {} /\ "AAPL" \notin i.whitelist
          [] r = "Max concurrent positions reached" ->
                Cardinality(OpenHeld(i)) >= i.max_concurrent
          [] r = "Max open orders reached" ->
                ~IsNone(i.open_orders) /\ Val(i.open_orders) >= i.max_open_orders
          [] r = "Max positions for symbol reached" ->
                /\ i.max_per_symbol > 0
                /\ Cardinality({k \in OpenHeld(i) :
                        Val(i.positions)[k].symbol \in {"AAPL", "aapl"}}) >= i.max_per_symbol
          [] r = "Order notional exceeds cap" ->
                ~IsNone(i.cap) /\ ~IsNone(price) /\ Val(price) * i.qty > Val(i.cap)
          [] r = "Cash below minimum" ->
                /\ ~IsNone(i.min_cash)
                /\ ~IsNone(i.balances.cash)
                /\ Val(i.balances.cash) < Val(i.min_cash)}

\* C18: whenever risk.evaluate returns, passed is true exactly when reasons is empty, and
\* the reasons are those of the violated rules (trading window, blacklist, whitelist, max
\* concurrent, max open orders, max positions for the symbol, notional cap, min cash), each
\* present whether or not any other rule is violated.
C18_EveryViolationReported ==
    (call.fn = "risk.evaluate" /\ ~call.out.raised) =>
        /\ call.out.passed <=> call.out.reasons = <<>>
        /\ Range(call.out.reasons) = Violations(call.input, call.out.price)

\* A refusal for five reasons at once
C18_Witness ==
    /\ call.fn = "risk.evaluate"
    /\ ~call.out.passed
    /\ Len(call.out.reasons) >= 5
    /\ "Order notional exceeds cap" \in Range(call.out.reasons)
    /\ "Cash below minimum" \in Range(call.out.reasons)

\* C19: with a notional cap c configured and a price p resolved, risk.evaluate gives the
\* notional reason exactly when p * q > c, and with every other rule satisfied it refuses
\* the signal exactly in that case and otherwise passes it with empty reasons.
C19_NotionalCap ==
    (/\ call.fn = "risk.evaluate"
     /\ ~call.out.raised
     /\ ~IsNone(call.input.cap)
     /\ ~IsNone(call.out.price)) =>
        LET over == Val(call.out.price) * call.input.qty > Val(call.input.cap) IN
        /\ ("Order notional exceeds cap" \in Range(call.out.reasons)) <=> over
        /\ Violations(call.input, None) = {} =>
              /\ call.out.passed <=> ~over
              /\ call.out.passed => call.out.reasons = <<>>

\* An order exactly at the cap passed, the price taken from the close of the first quote
C19_Witness ==
    /\ call.fn = "risk.evaluate"
    /\ call.out.passed
    /\ call.input.cap = Some(20)
    /\ call.input.qty = 2
    /\ call.out.price = Some(10)
    /\ call.input.quote1 = Quote("", Some(0), Some(10))

\* C20: risk.evaluate never raises because a provider call (positions, open orders,
\* last-trade price, quote, balances) failed, whatever the exception left after the
\* retries; it returns (passed, reasons), and a failed fetch adds no reason for the check
\* that needed it.
C20_ProviderFailureTolerated ==
    call.fn = "risk.evaluate" =>
        /\ ~call.out.raised
        /\ IsNone(call.input.positions) =>
              Range(call.out.reasons) \cap {"Max concurrent positions reached",
                                           "Max positions for symbol reached"} = {}
        /\ IsNone(call.input.open_orders) =>
              "Max open orders reached" \notin Range(call.out.reasons)
        /\ (call.input.quote1.err # "" /\ call.input.quote2.err # "") =>
              "Order notional exceeds cap" \notin Range(call.out.reasons)
        /\ call.input.balances.failed => "Cash below minimum" \notin Range(call.out.reasons)


\* =============================================================== order plans
\* The inputs of one compute_order_plan: the signal's quantity and bracket, the sizing
\* settings, and the QTY_, STOP_ and TP_ overrides of the symbol in the environment
InitPlan ==
    /\ WorkerAtRest
    /\ last_signal_ts = EmptyMap
    /\ emitted = {}
    /\ \E qty \in {None, Some(0), Some(2)}, entry \in {None, Some(10)},
          stop \in {None, Some(8), Some(10), Some(12)}, atr \in {None, Some(5)},
          default_qty \in {0, 1}, risk \in {0, 1, 5}, stop_pct \in {None, Some(20)},
          qty_override \in {None, Some(0), Some(3)},
          stop_override \in {None, Some(30)}, tp_override \in {None, Some(40)} :
          call = [fn |-> "plan",
                  sig |-> [Signal("aapl", "VWAP_RECLAIM",
                                  [Bracket(entry, stop, None, None) EXCEPT !.atr = atr])
                              EXCEPT !.qty = qty],
                  cfg |-> [Cfg(TRUE, None, {"AAPL"}) EXCEPT
                              !.default_qty = default_qty, !.risk_per_trade_usd = risk,
                              !.stop_pct = stop_pct],
                  overrides |-> [qty |-> qty_override, stop_pct |-> stop_override,
                                 tp_pct |-> tp_override]]

\* plan = compute_order_plan(sig, cfg)
ComputeOrderPlan ==
    /\ call.fn = "plan"
    /\ call' = [fn |-> "compute_order_plan", sig |-> call.sig, cfg |-> call.cfg,
                overrides |-> call.overrides,
                plan |-> plan_under(call.sig, call.cfg, call.overrides)]
    /\ UNCHANGED <<worker_vars, last_signal_ts, emitted>>

SpecPlan == InitPlan /\ [][ComputeOrderPlan]_vars

\* C21: when a per-symbol quantity override exists the plan's qty is that override, raised
\* to at least 1, whatever risk_per_trade_usd, entry and stop are.
C21_QtyOverrideWins ==
    (call.fn = "compute_order_plan" /\ ~IsNone(call.overrides.qty)) =>
        call.plan.qty = Max(1, Val(call.overrides.qty))

\* The plan has an entry above its stop
ValidStopDistance(plan) ==
    /\ ~IsNone(plan.entry_price)
    /\ ~IsNone(plan.stop_price)
    /\ Val(plan.entry_price) > Val(plan.stop_price)

\* C22: compute_order_plan returns qty >= 1; when risk_per_trade_usd is non-zero, no
\* quantity override exists and entry > stop, qty = max(1, floor(risk_per_trade_usd /
\* (entry - stop))); otherwise qty is the override, the signal's qty or default_qty, raised
\* to at least 1.
C22_RiskSizedQty ==
    call.fn = "compute_order_plan" =>
        /\ call.plan.qty >= 1
        /\ IF /\ call.cfg.risk_per_trade_usd # 0
              /\ IsNone(call.overrides.qty)
              /\ ValidStopDistance(call.plan)
           THEN call.plan.qty =
                    Max(1, call.cfg.risk_per_trade_usd
                              \div (Val(call.plan.entry_price) - Val(call.plan.stop_price)))
           ELSE call.plan.qty =
                    Max(1, IF ~IsNone(call.overrides.qty) THEN Val(call.overrides.qty)
                           ELSE IF Truthy(call.sig.qty) THEN Val(call.sig.qty)
                           ELSE call.cfg.default_qty)

\* ------------------------------------------------ scan_once: journal and counters
\* A log cut into runs, a new run starting at every record of kind `start`
RECURSIVE SplitRuns(_, _)
SplitRuns(log, start) ==
    IF log = <<>> THEN <<>>
    ELSE LET last == log[Len(log)]
             runs == SplitRuns(SubSeq(log, 1, Len(log) - 1), start)
         IN  IF last.kind = start \/ runs = <<>>
             THEN Append(runs, <<last>>)
             ELSE [runs EXCEPT ![Len(runs)] = Append(@, last)]

Kinds(run) == [j \in DOMAIN run |-> run[j].kind]

\* The increments of the last step as records, the outcome label as their kind
Increments == [j \in DOMAIN signal_total |->
                  [kind |-> signal_total[j][2], setup |-> signal_total[j][1]]]

\* How often the run incremented the counter of (setup, outcome)
Incremented(run, setup, outcome) ==
    Cardinality({j \in DOMAIN run : run[j].setup = setup /\ run[j].kind = outcome})

\* C23: for every signal scan_once was given, the journal holds exactly one
\* signal_generated before any other event of that signal, followed by exactly one of
\* signal_blocked and signal_approved; an order_placed comes only after that signal's
\* signal_approved; and a signal approved in a dry run adds exactly 1 to each of the
\* generated, approved and dry_run counters of its setup.
C23_JournalPerSignal ==
    op = "scan_once" =>
        LET runs == SplitRuns(events, "signal_generated")
            counts == SplitRuns(Increments, "generated")
        IN  /\ Len(runs) = Len(scanned)
            /\ \A k \in DOMAIN runs :
                LET sig == scanned[k].sig
                    setup == IF sig.setup = "" THEN "UNKNOWN" ELSE sig.setup
                IN  /\ Kinds(runs[k]) \in
                          {<<"signal_generated", "signal_blocked">>,
                           <<"signal_generated", "signal_approved">>,
                           <<"signal_generated", "signal_approved", "order_placed">>}
                    /\ \A j \in DOMAIN runs[k] : runs[k][j].symbol = Upper(sig.symbol)
                    /\ (cfg.dry_run /\ Kinds(runs[k])[2] = "signal_approved") =>
                          /\ k \in DOMAIN counts
                          /\ \A o \in {"generated", "approved", "dry_run"} :
                                Incremented(counts[k], setup, o) = 1
                          /\ Len(counts[k]) = 3

\* The same of a scan_once that returned
C23_JournalPerSignalReturned == raised \/ C23_JournalPerSignal

\* ---------------------------------------------------- scan_once: options feedback
\* Deployments with the options gate on: a minimum volume, a maximum IV or none, and a
\* cache that is still fresh, or stale, one sleep later
FeedbackCfg(dry, ttl, max_iv) ==
    [Cfg(dry, None, {"AAPL"}) EXCEPT !.enable_options_feedback = TRUE,
                                     !.options_min_volume = 5,
                                     !.options_max_iv = max_iv,
                                     !.options_cache_ttl = ttl]

DeploymentsFeedback ==
    {<<FeedbackCfg(dry, ttl, max_iv), EmptyMap>> :
        dry \in BOOLEAN, ttl \in {1, 2}, max_iv \in {0, 50}}

InitFeedback == InitWith(DeploymentsFeedback)

\* scan_once run on its own, cycle after cycle
ScanAlone ==
    /\ pc = "scan"
    /\ \E items \in SeqsUpTo(ScanItems(cfg), MaxSignals), down \in Downs(cfg) :
        LET m == scan_once(Machine, items, cfg, now, quotes, down)
        IN  /\ m.uuid <= MaxTrades + 1
            /\ Ran(m, "scan_once", items, "sleep")

SpecFeedback == InitFeedback /\ [][ScanAlone \/ Sleep]_vars

\* The feedback the k-th signal of a pass is judged by: the cached one while it is
\* fresh, else the first answer the provider gave in this pass (it is cached at once)
UsedFeedback(items, k) ==
    IF /\ "AAPL" \in DOMAIN OPTIONS_CACHE
       /\ now - OPTIONS_CACHE["AAPL"].ts <= cfg.options_cache_ttl
    THEN Some(OPTIONS_CACHE["AAPL"].data)
    ELSE IF \A j \in 1..k : IsNone(items[j].feedback) THEN None
    ELSE items[CHOOSE j \in 1..k : /\ ~IsNone(items[j].feedback)
                                   /\ \A i \in 1..(j - 1) : IsNone(items[i].feedback)].feedback

\* Both volumes below the minimum, or the call IV above a non-zero maximum
FeedbackRefuses(data) ==
    /\ ~IsNone(data)
    /\ \/ /\ Val(data).call_volume < cfg.options_min_volume
          /\ Val(data).put_volume < cfg.options_min_volume
       \/ /\ cfg.options_max_iv # 0
          /\ Val(data).call_iv > cfg.options_max_iv

\* C24: with the options feedback enabled, a signal whose fresh or cached feedback shows
\* both volumes below options_min_volume, or a call IV above a non-zero options_max_iv,
\* is journalled signal_blocked with reasons [options_feedback_block]; risk is not
\* evaluated for it, no order is placed and no trade is registered for it.
C24_OptionsFeedbackBlocks ==
    [][(op' = "scan_once" /\ cfg.enable_options_feedback) =>
          LET runs == SplitRuns(events', "signal_generated")
              refused == {k \in DOMAIN runs : FeedbackRefuses(UsedFeedback(scanned', k))}
              judged == DOMAIN runs \ refused
          IN  /\ \A k \in refused :
                    /\ Kinds(runs[k]) = <<"signal_generated", "signal_blocked">>
                    /\ runs[k][2].detail = <<"options_feedback_block">>
              /\ risk_calls' = Cardinality(judged)
              /\ Len(orders') <= Cardinality(judged)
              /\ judged = {} => /\ ACTIVE_TRADES' = ACTIVE_TRADES
                                /\ trades_table' = trades_table
                                /\ trades_json' = trades_json]_vars

\* A pass blocked a signal on the cached feedback: the provider gave no answer this time
C24_Witness ==
    /\ op = "scan_once"
    /\ cfg.enable_options_feedback
    /\ Len(scanned) = 2
    /\ \A k \in DOMAIN scanned : IsNone(scanned[k].feedback)
    /\ Len(events) = 4
    /\ events[4].detail = <<"options_feedback_block">>
    /\ risk_calls = 0

\* ------------------------------------------------- generate_signals: symbol routing
\* C25: every signal generate_signals returns for a source symbol S that the execution
\* map routes to E has symbol = E, source_symbol = S, metadata.execution_symbol = E and
\* metadata.source_symbol = S; for an unmapped symbol the signal's symbol is the source
\* symbol.
C25_ExecutionSymbolApplied ==
    call.fn = "generate_signals" =>
        \A i \in DOMAIN call.signals :
            LET sig == call.signals[i]
                S == call.snapshot.symbol
            IN  IF S \in DOMAIN call.execution_map
                THEN /\ sig.symbol = call.execution_map[S]
                     /\ "source_symbol" \in DOMAIN sig
                     /\ sig.source_symbol = S
                     /\ "metadata" \in DOMAIN sig
                     /\ sig.metadata.execution_symbol = call.execution_map[S]
                     /\ sig.metadata.source_symbol = S
                ELSE /\ sig.symbol = S
                     /\ "source_symbol" \in DOMAIN sig => sig.source_symbol = S

\* The same of the unmapped symbols alone
C25_UnmappedKeepsSymbol ==
    (call.fn = "generate_signals" /\ call.execution_map = EmptyMap)
        => C25_ExecutionSymbolApplied

\* ------------------------------------------------------ failures stay with a symbol
Passes == {"scan_once", "partial_exit_pass", "ema_exit_pass", "trailing_exit_pass"}

\* partial_exit_pass finds the first target of tracked symbol s reached, on a held
\* position and a quoted price
PartialDue(s) ==
    /\ s \in DOMAIN ACTIVE_TRADES
    /\ positions[s].quantity > 0
    /\ ~IsNone(quotes[s])
    /\ ~ACTIVE_TRADES[s].partial_exited
    /\ ~IsNone(ACTIVE_TRADES[s].target1)
    /\ Val(quotes[s]) >= Val(ACTIVE_TRADES[s].target1)

SellSent(ords, s) == \E j \in DOMAIN ords : ords[j].symbol = s /\ ords[j].side = "sell"

\* C26: within one pass a provider or broker call that fails for one symbol does not keep
\* the remaining symbols from being processed in the same cycle: a failed broker call
\* never ends the pass, and in a live partial_exit_pass at most as many due partial exits
\* go unsent as broker calls failed.
C26_FailureStaysWithSymbol ==
    [][/\ (op' \in Passes /\ broker_errors' > 0) => ~raised'
       /\ (op' = "partial_exit_pass" /\ ~cfg.dry_run) =>
             Cardinality({s \in cfg.symbols : PartialDue(s) /\ ~SellSent(orders', s)})
                 <= broker_errors']_vars

\* The same of the passes that catch the broker's exception, and of a partial_exit_pass
\* that returned
C26_FailureCaughtWhereGuarded ==
    [][/\ (op' \in {"scan_once", "trailing_exit_pass"} /\ broker_errors' > 0) => ~raised'
       /\ (op' = "partial_exit_pass" /\ ~cfg.dry_run /\ ~raised') =>
             \A s \in cfg.symbols : PartialDue(s) => SellSent(orders', s)]_vars

\* ------------------------------------------------------------- main(): the loop
\* main() left running: the event loop runs every awaited pass to its end and the sleep
\* timer fires, so each step of the loop that stays enabled is taken
DeploymentsLoop ==
    {<<Cfg(TRUE, None, {"AAPL"}), EmptyMap>>, <<Cfg(FALSE, None, {"AAPL"}), EmptyMap>>}

InitLoop == InitWith(DeploymentsLoop)

NextLoop ==
    \/ ScanOnce
    \/ PartialExitPass
    \/ EmaExitPass
    \/ TrailingExitPass
    \/ Sleep
    \/ BrokerMoves

SpecLoop ==
    /\ InitLoop
    /\ [][NextLoop]_vars
    /\ WF_vars(ScanOnce)
    /\ WF_vars(PartialExitPass)
    /\ WF_vars(EmaExitPass)
    /\ WF_vars(TrailingExitPass)
    /\ WF_vars(Sleep)

\* C27: the loop never stops because of an exception: whenever a pass raised (and the clock
\* leaves room for another cycle), main() catches it, sleeps, and the next cycle's
\* scan_once runs one scan interval later.
C27_LoopSurvivesException ==
    \A t \in 1..MaxTime :
        (raised /\ op \in Passes /\ now = t /\ t + ScanIntervalMin <= MaxTime)
            ~> (op = "scan_once" /\ now = t + ScanIntervalMin)

\* A pass raised and main() is at its sleep
C27_Witness ==
    /\ raised
    /\ op \in Passes
    /\ pc = "sleep"
    /\ now + ScanIntervalMin <= MaxTime

\* Where main() stands after a pass that started at `from`: at the pass that follows it,
\* or at the sleep
StandsAfter(from, next) == pc = from /\ pc' \in {next, "sleep"}

SpecScanTwo == InitTwo /\ [][ScanAlone \/ Sleep]_vars

\* The signals of the pass that were approved for symbol s
ApprovedFor(runs, s) ==
    {k \in DOMAIN runs : runs[k][1].symbol = s /\ Len(runs[k]) >= 2
                         /\ runs[k][2].kind = "signal_approved"}

EntrySent(ords, s) == \E j \in DOMAIN ords : ords[j].symbol = s /\ ords[j].reason = "entry"

\* The symbols for which the broker refused the entry order in this pass
Refused(runs, ords) ==
    {s \in cfg.symbols : ApprovedFor(runs, s) # {} /\ ~EntrySent(ords, s)}

\* C29: in live mode, when place_equity_order raises for an approved signal, no trade is
\* registered for it, the order is not submitted a second time within the same scan_once
\* (one broker call per approved signal), and the remaining signals are still processed.
C29_FailedOrderLeavesNoTrade ==
    [][(op' = "scan_once" /\ ~cfg.dry_run) =>
          LET runs == SplitRuns(events', "signal_generated")
              refused == Refused(runs, orders')
          IN  /\ \A s \in refused :
                    /\ (s \in DOMAIN ACTIVE_TRADES') = (s \in DOMAIN ACTIVE_TRADES)
                    /\ s \in DOMAIN ACTIVE_TRADES => ACTIVE_TRADES'[s] = ACTIVE_TRADES[s]
              /\ broker_errors' =
                    Cardinality(UNION {{<<s, k>> : k \in ApprovedFor(runs, s)} : s \in refused})
              /\ ~raised'
              /\ Len(runs) = Len(scanned')]_vars

\* The broker refused the first signal's order; the second signal, of the other symbol,
\* was placed and registered
C29_Witness ==
    /\ op = "scan_once"
    /\ ~cfg.dry_run
    /\ Len(scanned) = 2
    /\ broker_errors = 1
    /\ Len(orders) = 1
    /\ orders[1].symbol = Upper(scanned[2].sig.symbol)
    /\ orders[1].symbol # Upper(scanned[1].sig.symbol)
    /\ orders[1].symbol \in DOMAIN ACTIVE_TRADES
    /\ Upper(scanned[1].sig.symbol) \notin DOMAIN ACTIVE_TRADES

\* ------------------------------------------------------ exits and their journal
ExitPasses == {"partial_exit_pass", "ema_exit_pass", "trailing_exit_pass"}

\* The order_exit records of the journal for symbol s with a reason in R
ExitRecords(evs, s, R) ==
    {k \in DOMAIN evs : evs[k].kind = "order_exit" /\ evs[k].symbol = s
                        /\ evs[k].detail[1] \in R}

\* An exit pass decided to leave the tracked position of s for good: the trade is gone
\* although the position was not found closed
LeftForGood(s) ==
    /\ s \in DOMAIN ACTIVE_TRADES
    /\ s \notin DOMAIN ACTIVE_TRADES'
    /\ cfg.dry_run \/ positions[s].quantity > 0

\* partial_exit_pass took the first target of s
TookPartial(s) ==
    /\ s \in DOMAIN ACTIVE_TRADES
    /\ s \in DOMAIN ACTIVE_TRADES'
    /\ ~ACTIVE_TRADES[s].partial_exited
    /\ ACTIVE_TRADES'[s].partial_exited

\* Every exit decision of the step has exactly one order_exit record with its symbol,
\* quantity and reason
ExitsJournalled ==
    /\ \A s \in cfg.symbols :
          /\ LeftForGood(s) => Cardinality(ExitRecords(events', s, FullExitReasons)) = 1
          /\ TookPartial(s) => Cardinality(ExitRecords(events', s, {"partial_target"})) = 1
    /\ \A j \in DOMAIN orders' :
          Cardinality({k \in ExitRecords(events', orders'[j].symbol, {orders'[j].reason}) :
                          events'[k].qty = orders'[j].qty}) = 1

\* C30: every exit decision of an exit pass (partial_target, final_target, timeout_exit,
\* ema_cross_down, trailing exit), in a dry run as well as live, appends exactly one
\* order_exit record naming the symbol, the quantity and the reason.
C30_EveryExitJournalled == [][op' \in ExitPasses => ExitsJournalled]_vars

\* The same of every exit but the trailing exit of a dry run
C30_ExitJournalledButDryTrail ==
    [][(op' \in ExitPasses /\ ~(cfg.dry_run /\ op' = "trailing_exit_pass"))
          => ExitsJournalled]_vars

\* ------------------------------------------------- engine/features.py: snapshot
\* The dataclass FeatureSnapshot: its fields, the last two with their default None
FeatureSnapshot(symbol, as_of, last_price, vwap, sigma_upper, sigma_lower, ema20, ema50, ema20_slope, relative_volume, hod, lod, prev_close) ==
    [symbol |-> symbol, as_of |-> as_of, last_price |-> last_price, vwap |-> vwap,
     sigma_upper |-> sigma_upper, sigma_lower |-> sigma_lower, ema20 |-> ema20,
     ema50 |-> ema50, ema20_slope |-> ema20_slope, relative_volume |-> relative_volume,
     hod |-> hod, lod |-> lod, prev_close |-> prev_close,
     cumulative_delta |-> None, orderbook_imbalance |-> None]

\* A minute bar: close (may be missing), volume, high, low; `float(x or 0)` of the others
Bar(c, v, h, l) == [c |-> c, v |-> v, h |-> h, l |-> l]

RECURSIVE SumSeq(_)
SumSeq(q) == IF q = <<>> THEN 0 ELSE Head(q) + SumSeq(Tail(q))

\* The largest whole number whose square is at most n
Isqrt(n) == CHOOSE r \in 0..n : r * r <= n /\ (r + 1) * (r + 1) > n

\* _compute_vwap(prices, volumes) over zip(prices, volumes), in whole numbers
_compute_vwap(prices, volumes) ==
    LET n == Min(Len(prices), Len(volumes))
        used == SelectSeq([i \in 1..n |-> [p |-> prices[i], v |-> volumes[i]]],
                          LAMBDA x : x.v > 0)
        total_volume == SumSeq([i \in DOMAIN used |-> used[i].v])
        weighted_price == SumSeq([i \in DOMAIN used |-> used[i].p * used[i].v])
    IN  IF total_volume <= 0 THEN None ELSE Some(weighted_price \div total_volume)

\* _compute_sigma(prices, vwap_val): pstdev of the deviations from the VWAP, which is the
\* pstdev of the prices, in whole numbers
_compute_sigma(prices, vwap_val) ==
    LET n == Len(prices)
        sq == SumSeq([i \in DOMAIN prices |-> prices[i] * prices[i]])
        sm == SumSeq(prices)
    IN  IF IsNone(vwap_val) \/ n < 2 THEN None
        ELSE Some(Isqrt((n * sq - sm * sm) \div (n * n)))

SeqMax(q) == CHOOSE x \in Range(q) : \A y \in Range(q) : y <= x
SeqMin(q) == CHOOSE x \in Range(q) : \A y \in Range(q) : x <= y

\* FeatureEngine.snapshot(symbol) on the bars polygon.minute_bars returned, at time t.
\* With fewer than 20 closes there is no EMA and no slope, with fewer than 30 volumes no
\* relative volume.
snapshot(symbol, bars, t) ==
    LET with_close == SelectSeq(bars, LAMBDA b : ~IsNone(b.c))
        closes == [i \in DOMAIN with_close |-> Val(with_close[i].c)]
        volumes == [i \in DOMAIN bars |-> bars[i].v]
        highs == [i \in DOMAIN bars |-> bars[i].h]
        lows == [i \in DOMAIN bars |-> bars[i].l]
        last_price == IF closes # <<>> THEN Some(closes[Len(closes)]) ELSE None
        vwap_val == _compute_vwap(closes, volumes)
        sigma == _compute_sigma(closes, vwap_val)
        banded == ~IsNone(vwap_val) /\ ~IsNone(sigma)
    IN  IF bars = <<>>
        THEN FeatureSnapshot(Upper(symbol), t, None, None, None, None, None, None, None,
                             None, None, None, None)
        ELSE FeatureSnapshot(Upper(symbol), t, last_price, vwap_val,
                             IF banded THEN Some(Val(vwap_val) + Val(sigma)) ELSE None,
                             IF banded THEN Some(Val(vwap_val) - Val(sigma)) ELSE None,
                             None, None, None, None,
                             Some(SeqMax(highs)), Some(SeqMin(lows)), None)

\* The bars the provider may return for a symbol: none, or up to two minute bars
Bars == {Bar(c, v, hl[1], hl[2]) : c \in {None, Some(1), Some(3)}, v \in {0, 2},
                                   hl \in {<<3, 1>>, <<4, 0>>}}

InitFeatures ==
    /\ WorkerAtRest
    /\ last_signal_ts = EmptyMap
    /\ emitted = {}
    /\ \E symbol \in {"aapl", "AAPL"}, bars \in SeqsUpTo(Bars, 2) :
          call = [fn |-> "bars", symbol |-> symbol, bars |-> bars]

\* engine.snapshot(symbol)
Snapshot ==
    /\ call.fn = "bars"
    /\ call' = [fn |-> "snapshot", symbol |-> call.symbol, bars |-> call.bars,
                out |-> snapshot(call.symbol, call.bars, 0)]
    /\ UNCHANGED <<worker_vars, last_signal_ts, emitted>>

SpecFeatures == InitFeatures /\ [][Snapshot]_vars

\* The feature fields the plays and the tests read from a snapshot
FeatureFields ==
    {"last_price", "vwap", "sigma_upper", "sigma_lower", "ema20", "ema50", "ema20_slope",
     "relative_volume", "hod", "lod", "prev_close", "atr14", "market_regime_score"}

\* C31: when the bar source returns no bars, FeatureEngine.snapshot returns (it does not
\* raise) a snapshot with the upper-cased symbol and every feature field (last_price, vwap,
\* sigma bands, EMAs, slope, relative volume, HOD/LOD, prev_close, ATR, regime score) null.
C31_EmptyBarsAllNull ==
    (call.fn = "snapshot" /\ call.bars = <<>>) =>
        /\ call.out.symbol = Upper(call.symbol)
        /\ \A f \in FeatureFields : f \in DOMAIN call.out /\ IsNone(call.out[f])

\* The same of the fields the dataclass has
C31_EmptyBarsPresentFieldsNull ==
    (call.fn = "snapshot" /\ call.bars = <<>>) =>
        /\ call.out.symbol = Upper(call.symbol)
        /\ \A f \in FeatureFields \cap DOMAIN call.out : IsNone(call.out[f])
        /\ FeatureFields \ DOMAIN call.out = {"atr14", "market_regime_score"}

\* ------------------------------------------------- providers/tradier.py: _request
MaxAttempts == 3
InitialBackoff == 25
MaxBackoff == 200

\* What one client.request can come to: httpx.TimeoutException, another httpx.HTTPError,
\* or a response with a status code
Failed(exc) == [exc |-> exc, status |-> 0]
Status(status) == [exc |-> "", status |-> status]
Responses ==
    {Failed("timeout"), Failed("http_error")}
        \cup {Status(n) : n \in {200, 302, 400, 404, 429, 500, 503, 599, 600}}

\* `status == 429 or 500 <= status < 600`
retry_status_wide(status) == status >= 400
retry_status(status) == status = 429 \/ (500 <= status /\ status < 600)

\* The attempts that end in `continue`
Transient(resp) == resp.exc # "" \/ retry_status(resp.status)

\* The exception an attempt leaves in last_error
ErrorOf(resp) ==
    CASE resp.exc = "timeout" -> "TimeoutException"
      [] resp.exc = "http_error" -> "HTTPError"
      [] OTHER -> "TradierHTTPError"

InitRequest ==
    /\ WorkerAtRest
    /\ last_signal_ts = EmptyMap
    /\ emitted = {}
    /\ \E max_attempts \in 0..MaxAttempts :
          call = [fn |-> "_request", max_attempts |-> max_attempts, attempt |-> 0,
                  backoff |-> InitialBackoff, last_error |-> None, log |-> <<>>,
                  slept |-> <<>>, result |-> "pending"]

\* One turn of `for attempt in range(1, max_attempts + 1)`
Attempt ==
    /\ call.fn = "_request"
    /\ call.result = "pending"
    /\ call.attempt < call.max_attempts
    /\ \E resp \in Responses :
          call' = IF resp.exc # "" \/ retry_status(resp.status)
                  THEN [call EXCEPT !.attempt = @ + 1, !.log = Append(@, resp),
                                    !.last_error = Some(ErrorOf(resp)),
                                    !.slept = Append(@, call.backoff),
                                    !.backoff = Min(MaxBackoff, @ * 2)]
                  ELSE IF resp.status >= 400
                  THEN [call EXCEPT !.attempt = @ + 1, !.log = Append(@, resp),
                                    !.result = "TradierHTTPError"]
                  ELSE [call EXCEPT !.attempt = @ + 1, !.log = Append(@, resp),
                                    !.result = "returned"]
    /\ UNCHANGED <<worker_vars, last_signal_ts, emitted>>

\* The loop ran out: `if last_error: raise last_error`, else raise TradierHTTPError
Exhausted ==
    /\ call.fn = "_request"
    /\ call.result = "pending"
    /\ call.attempt >= call.max_attempts
    /\ call' = [call EXCEPT !.result = IF IsNone(call.last_error) THEN "TradierHTTPError"
                                       ELSE Val(call.last_error)]
    /\ UNCHANGED <<worker_vars, last_signal_ts, emitted>>

NextRequest == Attempt \/ Exhausted

\* An awaited client.request ends, by a response or by the client's timeout, and the sleep
\* between attempts is bounded
SpecRequest == InitRequest /\ [][NextRequest]_vars /\ WF_vars(NextRequest)

Exceptions == {"TradierHTTPError", "TimeoutException", "HTTPError"}

RequestBounded ==
    call.fn = "_request" =>
        /\ Len(call.log) <= call.max_attempts
        /\ \A i \in 1..(Len(call.log) - 1) :
              (call.log[i].exc # "" \/ call.log[i].status \in {429, 500, 503, 599})
        /\ \A i \in 1..Len(call.log) :
              (call.log[i].status \in {400, 404, 600}) =>
                  (i = Len(call.log) /\ call.result = "TradierHTTPError")
        /\ (call.result = "returned") =>
              (call.log # <<>> /\ call.log[Len(call.log)].status \in {200, 302})
        /\ (call.result \in Exceptions /\ Len(call.log) = call.max_attempts
              /\ \A i \in 1..Len(call.log) :
                    (call.log[i].exc # "" \/ call.log[i].status \in {429, 500, 503, 599}))
             => call.result = (IF call.log = <<>> THEN "TradierHTTPError"
                               ELSE ErrorOf(call.log[Len(call.log)]))
        /\ call.result \in Exceptions \cup {"returned", "pending"}

\* C32: _request makes at most max_attempts HTTP attempts per call; only a timeout, a
\* transport error, a 429 or a 5xx is followed by another attempt; any other status >= 400
\* raises TradierHTTPError at once; and the call ends: after max_attempts transient
\* failures in a row it raises instead of trying again.
C32_BoundedRetries == []RequestBounded /\ <>(call.result # "pending")

C32_Witness ==
    /\ call.fn = "_request"
    /\ call.max_attempts = MaxAttempts
    /\ Len(call.log) = MaxAttempts
    /\ call.log[1].exc = "timeout" /\ call.log[2].status = 429
    /\ call.log[MaxAttempts].status = 503
    /\ call.result = "TradierHTTPError"

\* ------------------------------------------------- state.py: _save and _load, step by step
MaxSaves == 2

_HF_PATH == "high_water.json"
_TRADES_PATH == "trades.json"
StatePaths == {_HF_PATH, _TRADES_PATH}

\* `tmp = path + ".tmp"`
tmp_in_place(path) == path
tmp_of(path) == path \o ".tmp"

\* What is saved: a dict keyed by symbol
StateDicts == SUBSET AllSyms

\* json.dump(data, f) writes the document piece by piece
dump(data) ==
    <<"{">> \o (IF "AAPL" \in data THEN <<"AAPL">> ELSE <<>>)
            \o (IF "SPY" \in data THEN <<"SPY">> ELSE <<>>) \o <<"}">>

\* The state directory: names bound to files (dir), the files' contents (inodes); the
\* worker inside _save (writer), another thread or process inside _load (reader).
\* `saved` is the dict of the last finished save of each path, `may` what a reader that
\* overlaps a save is entitled to: the previous content or the new one.
StateFiles(present) ==
    [fn |-> "state_files",
     dir |-> [x \in present |-> IF x = _HF_PATH THEN 1 ELSE 2],
     inodes |-> <<dump({}), dump({})>>,
     saved |-> [x \in StatePaths |-> IF x \in present THEN Some(dump({})) ELSE None],
     writer |-> [pc |-> "idle", path |-> "", data |-> {}, fd |-> 0, left |-> <<>>],
     reader |-> [pc |-> "idle", path |-> "", fd |-> 0, seen |-> None, may |-> {}],
     saves |-> 0]

InitStateFiles ==
    /\ WorkerAtRest
    /\ last_signal_ts = EmptyMap
    /\ emitted = {}
    /\ \E present \in SUBSET StatePaths : call = StateFiles(present)

\* _save: `open(tmp, "w")` makes the file, or empties the one a dead writer left behind
SaveOpen ==
    /\ call.fn = "state_files"
    /\ call.writer.pc = "idle"
    /\ call.saves < MaxSaves
    /\ \E path \in StatePaths, data \in StateDicts :
          LET tmp == tmp_of(path)
              old == tmp \in DOMAIN call.dir
              fd == IF old THEN call.dir[tmp] ELSE Len(call.inodes) + 1
          IN  call' = [call EXCEPT
                  !.dir = MapPut(@, tmp, fd),
                  !.inodes = IF old THEN [@ EXCEPT ![fd] = <<>>] ELSE Append(@, <<>>),
                  !.writer = [pc |-> "writing", path |-> path, data |-> data, fd |-> fd,
                              left |-> dump(data)],
                  !.reader.may = IF call.reader.pc = "opened" /\ call.reader.path = path
                                 THEN @ \cup {Some(dump(data))} ELSE @,
                  !.saves = @ + 1]
    /\ UNCHANGED <<worker_vars, last_signal_ts, emitted>>

\* _save: json.dump writes the next piece into the open file
SaveWrite ==
    /\ call.fn = "state_files"
    /\ call.writer.pc = "writing"
    /\ call.writer.left # <<>>
    /\ call' = [call EXCEPT
           !.inodes[call.writer.fd] = Append(@, Head(call.writer.left)),
           !.writer.left = Tail(@)]
    /\ UNCHANGED <<worker_vars, last_signal_ts, emitted>>

\* _save: the file is closed and `os.replace(tmp, path)` rebinds the name in one step
SaveReplace ==
    /\ call.fn = "state_files"
    /\ call.writer.pc = "writing"
    /\ call.writer.left = <<>>
    /\ LET path == call.writer.path
       IN  call' = [call EXCEPT
               !.dir = MapPut(MapPop(@, tmp_of(path)), path, call.writer.fd),
               !.saved[path] = Some(dump(call.writer.data)),
               !.writer.pc = "idle"]
    /\ UNCHANGED <<worker_vars, last_signal_ts, emitted>>

\* The worker process dies inside _save and is started again
SaveKilled ==
    /\ call.fn = "state_files"
    /\ call.writer.pc = "writing"
    /\ call' = [call EXCEPT !.writer.pc = "idle"]
    /\ UNCHANGED <<worker_vars, last_signal_ts, emitted>>

\* _load: `open(path, "r")`; a missing file raises and {} is returned
LoadOpen ==
    /\ call.fn = "state_files"
    /\ call.reader.pc \in {"idle", "done"}
    /\ \E path \in StatePaths :
          LET saving == call.writer.pc = "writing" /\ call.writer.path = path
              may == {call.saved[path]}
                        \cup (IF saving THEN {Some(dump(call.writer.data))} ELSE {})
          IN  call' = IF path \in DOMAIN call.dir
                      THEN [call EXCEPT !.reader = [pc |-> "opened", path |-> path,
                                                    fd |-> call.dir[path], seen |-> None,
                                                    may |-> may]]
                      ELSE [call EXCEPT !.reader = [pc |-> "done", path |-> path,
                                                    fd |-> 0, seen |-> None, may |-> may]]
    /\ UNCHANGED <<worker_vars, last_signal_ts, emitted>>

\* _load: json.load(f) reads the open file
LoadRead ==
    /\ call.fn = "state_files"
    /\ call.reader.pc = "opened"
    /\ call' = [call EXCEPT !.reader.pc = "done",
                            !.reader.seen = Some(call.inodes[call.reader.fd])]
    /\ UNCHANGED <<worker_vars, last_signal_ts, emitted>>

NextStateFiles ==
    SaveOpen \/ SaveWrite \/ SaveReplace \/ SaveKilled \/ LoadOpen \/ LoadRead

SpecStateFiles == InitStateFiles /\ [][NextStateFiles]_vars

\* C33: a reader that loads the trade-state or the high-water file while the worker is
\* saving it reads a whole document, the one the file held before the save or the one
\* being saved, never a part of one.
C33_ReaderSeesWholeFile ==
    (call.fn = "state_files" /\ call.reader.pc = "done") =>
        /\ call.reader.seen \in call.reader.may
        /\ \/ IsNone(call.reader.seen)
           \/ \E data \in StateDicts : Val(call.reader.seen) = dump(data)

\* A load that began while a save of the same file was half written, and read the
\* previous document
C33_Witness ==
    /\ call.fn = "state_files"
    /\ call.reader.pc = "done"
    /\ call.reader.path = _TRADES_PATH
    /\ call.writer.pc = "writing" /\ call.writer.path = _TRADES_PATH
    /\ call.writer.data = {"AAPL"}
    /\ call.inodes[call.writer.fd] = <<"{", "AAPL">>
    /\ Cardinality(call.reader.may) = 2
    /\ call.reader.seen = Some(dump({}))

\* ------------------------------------------------- partial_exit_pass on a failed fetch
\* risk.portfolio_snapshot()["positions"]: what t.list_positions returned, or [] when
\* there is no account id or the call raised (`except Exception: out["positions"] = []`)
portfolio_snapshot(c, pos, fetch_failed) ==
    IF c.tradier_account_id = "" \/ fetch_failed
    THEN [x \in {} |-> [quantity |-> 0, cost_basis |-> 0]]
    ELSE pos

\* How the positions fetch of a pass went
FetchOutcome(fetch_failed) == [positions_fetch |-> IF fetch_failed THEN "failed" ELSE "ok"]

DeploymentsLive == {<<Cfg(FALSE, None, {"AAPL"}), EmptyMap>>}

InitLive == InitWith(DeploymentsLive)

\* partial_exit_pass(cfg), the broker answering the positions request or not
PartialExitPassFetch ==
    /\ pc = "partial"
    /\ \E syms \in SymOrders(cfg), down \in Downs(cfg), fetch_failed \in BOOLEAN :
        Ran(partial_exit_pass(Machine, cfg, syms,
                              portfolio_snapshot(cfg, positions, fetch_failed),
                              quotes, now, down),
            "partial_exit_pass", <<FetchOutcome(fetch_failed)>>, "sleep")

NextFetch == ScanOnce \/ PartialExitPassFetch \/ Sleep \/ BrokerMoves \/ MarketMoves

SpecFetch == InitLive /\ [][NextFetch]_vars

\* C34: in live mode a partial_exit_pass whose positions fetch failed removes no tracked
\* trade from the registry: the fetch is inconclusive, not a report of closed positions.
C34_FailedFetchRemovesNothing ==
    [][(/\ op' = "partial_exit_pass"
        /\ ~cfg.dry_run
        /\ scanned' = <<FetchOutcome(TRUE)>>) =>
          \A s \in DOMAIN ACTIVE_TRADES :
             positions[s].quantity > 0 => s \in DOMAIN ACTIVE_TRADES']_vars

\* The shares the sell orders of a pass ask the broker to sell of symbol s
SoldQty(ords, s) ==
    SumSeq([j \in DOMAIN ords |->
              IF ords[j].symbol = s /\ ords[j].side = "sell" THEN ords[j].qty ELSE 0])

\* C35: in live mode the sell orders one partial_exit_pass submits for a symbol add up to
\* at most the quantity the broker reported for it at the start of the pass, and a partial
\* exit sells at least 1 and at most that quantity.
C35_SellsWithinPosition ==
    [][(op' = "partial_exit_pass" /\ ~cfg.dry_run) =>
          \A s \in cfg.symbols :
             /\ SoldQty(orders', s) <= positions[s].quantity
             /\ \A j \in DOMAIN orders' :
                   (orders'[j].symbol = s /\ orders'[j].reason = "partial_target") =>
                       (1 <= orders'[j].qty /\ orders'[j].qty <= positions[s].quantity)]_vars

\* The part of it about the partial exit alone
C35_PartialWithinPosition ==
    [][(op' = "partial_exit_pass" /\ ~cfg.dry_run) =>
          \A s \in cfg.symbols : \A j \in DOMAIN orders' :
              (orders'[j].symbol = s /\ orders'[j].reason = "partial_target") =>
                  (1 <= orders'[j].qty /\ orders'[j].qty <= positions[s].quantity)]_vars

\* ------------------------------------------------- ema_exit_pass, its inputs on record
\* ema_exit_pass(cfg) in the live two-symbol deployment; the step keeps the bars the pass
\* was given and the symbols whose orders the broker refused
EmaExitPassSeen ==
    /\ pc = "ema"
    /\ \E syms \in SymOrders(cfg), down \in Downs(cfg),
          bars \in [cfg.symbols -> BarsSet] :
        Ran(ema_exit_pass(Machine, cfg, syms, positions, bars, now, down),
            "ema_exit_pass", <<[bars |-> bars, down |-> down]>>, "sleep")

NextEma == ScanOnce \/ PartialExitPass \/ EmaExitPassSeen \/ Sleep \/ BrokerMoves

SpecEma == InitTwo /\ [][NextEma]_vars

\* `diff_prev >= 0 and diff_now < 0 and closes[-1] < e50[-1]` on bars that were fetched
CrossDown(b) ==
    ~b.err /\ b.n >= 60 /\ b.diff_prev >= 0 /\ b.diff_now < 0 /\ b.close_e50 < 0

EmaExitSent(ords, s, qty) ==
    \E j \in DOMAIN ords : ords[j] = Order(s, "sell", qty, "ema_cross_down")

SameEntry(s) ==
    /\ (s \in DOMAIN ACTIVE_TRADES) = (s \in DOMAIN ACTIVE_TRADES')
    /\ s \in DOMAIN ACTIVE_TRADES => ACTIVE_TRADES'[s] = ACTIVE_TRADES[s]

\* What ema_exit_pass owes a held, configured symbol whose order the broker would take
EmaDecision(s) ==
    LET b == scanned'[1].bars[s]
        qty == positions[s].quantity
    IN  /\ CrossDown(b) <=> SellSent(orders', s)
        /\ CrossDown(b) => (EmaExitSent(orders', s, qty) /\ s \notin DOMAIN ACTIVE_TRADES')
        /\ ~CrossDown(b) => SameEntry(s)

\* C36: ema_exit_pass considers every broker-held position with quantity > 0 of a
\* configured symbol, tracked or not, and submits a full exit of the broker-reported
\* quantity exactly when the previous EMA20-EMA50 difference is >= 0, the current one is
\* < 0 and the last close is below EMA50; otherwise it submits nothing for the symbol and
\* leaves its registry entry as it was.
C36_EmaExitDecides ==
    [][op' = "ema_exit_pass" =>
          \A s \in cfg.symbols :
             (positions[s].quantity > 0 /\ s \notin scanned'[1].down) => EmaDecision(s)]_vars

\* The same of the passes in which no broker call failed
C36_EmaExitDecidesUnlessRaised ==
    [][(op' = "ema_exit_pass" /\ ~raised') =>
          \A s \in cfg.symbols :
             /\ positions[s].quantity > 0 => EmaDecision(s)
             /\ positions[s].quantity <= 0 => (~SellSent(orders', s) /\ SameEntry(s))]_vars

Rewritten ==
    {s \in DOMAIN ACTIVE_TRADES' :
        s \notin DOMAIN ACTIVE_TRADES \/ ACTIVE_TRADES'[s] # ACTIVE_TRADES[s]}

\* C38: register_trade inserts a trade row at most once per trade_id: registering a signal
\* for a symbol that is already tracked attempts no second insert under the kept trade_id,
\* so no register_trade of a scan ends in the insert's exception and every entry the scan
\* wrote into the registry has reached save_trade_state.
C38_RegisterReachesSave ==
    [][op' = "scan_once" =>
          /\ ~raised'
          /\ \A s \in Rewritten :
                s \in DOMAIN trades_json' /\ trades_json'[s] = ACTIVE_TRADES'[s]]_vars

\* The same of the symbols that were not tracked when the scan began and got one signal
C38_FirstRegistrationSaved ==
    [][(op' = "scan_once" /\ ~raised') =>
          \A s \in Rewritten :
             (/\ s \notin DOMAIN ACTIVE_TRADES
              /\ Cardinality({i \in DOMAIN scanned' :
                                 registry_key(scanned'[i].sig) = s}) = 1) =>
                 (s \in DOMAIN trades_json' /\ trades_json'[s] = ACTIVE_TRADES'[s])]_vars

\* C39: while a symbol stays in the registry its entry_ts does not change: a later
\* register_trade for it does not restart the clock of the timeout exit.
C39_EntryTsKept ==
    [][\A s \in DOMAIN ACTIVE_TRADES :
          s \in DOMAIN ACTIVE_TRADES' =>
              ACTIVE_TRADES'[s].entry_ts = ACTIVE_TRADES[s].entry_ts]_vars

\* The passes other than scan_once keep it
C39_ExitPassesKeepEntryTs ==
    [][op' # "scan_once" =>
          \A s \in DOMAIN ACTIVE_TRADES :
              s \in DOMAIN ACTIVE_TRADES' =>
                  ACTIVE_TRADES'[s].entry_ts = ACTIVE_TRADES[s].entry_ts]_vars

\* ------------------------------------------------- scan_once against the broker's account
\* The entry orders one behaviour may submit
MaxEntries == 3

\* The broker's position list and the number of its open orders, as portfolio_snapshot
\* fetches them for risk.evaluate
HeldList(held) == <<Position("AAPL", held["AAPL"]), Position("SPY", held["SPY"])>>

\* risk.evaluate(signal) inside scan_once: in the trading window, no symbol lists, no
\* notional cap, no minimum cash, the limits of the deployment
risk_of(symbol, acct) ==
    risk_evaluate([symbol |-> symbol, qty |-> DefaultQty, in_window |-> TRUE,
                   blacklist |-> {}, whitelist |-> {},
                   positions |-> Some(HeldList(acct.held)),
                   max_concurrent |-> acct.max_concurrent,
                   max_per_symbol |-> 1,
                   open_orders |-> Some(Len(acct.pending)),
                   max_open_orders |-> acct.max_open_orders,
                   cap |-> None, quote1 |-> Quote("", None, None),
                   quote2 |-> Quote("", None, None), min_cash |-> None,
                   balances |-> [failed |-> FALSE, cash |-> None]])

\* The symbols with a position, and the account's load: positions plus entry orders that
\* are submitted and not yet a position
OpenPositions(acct) == {y \in AllSyms : acct.held[y] # 0}
Committed(acct) == Cardinality(OpenPositions(acct)) + Len(acct.pending)

InitEntries ==
    /\ WorkerAtRest
    /\ last_signal_ts = EmptyMap
    /\ emitted = {}
    /\ \E max_concurrent \in {1, 2}, max_open_orders \in {1, 5},
          held \in [AllSyms -> {0, 1}] :
          call = [fn |-> "entries", held |-> held, pending |-> <<>>,
                  max_concurrent |-> max_concurrent, max_open_orders |-> max_open_orders,
                  left |-> MaxSignals, entries |-> 0, step |-> "start", symbol |-> ""]

\* scan_once, one signal of the cycle: risk.evaluate, then the entry order
EntrySignal ==
    /\ call.fn = "entries"
    /\ call.left > 0
    /\ call.entries < MaxEntries
    /\ \E symbol \in AllSyms :
          call' = IF risk_of(symbol, call).passed
                  THEN [call EXCEPT !.pending = Append(@, symbol), !.left = @ - 1,
                                    !.entries = @ + 1, !.step = "submitted",
                                    !.symbol = symbol]
                  ELSE [call EXCEPT !.left = @ - 1, !.step = "blocked", !.symbol = symbol]
    /\ UNCHANGED <<worker_vars, last_signal_ts, emitted>>

\* The cycle ends and, after the sleep, the next scan begins
NextScan ==
    /\ call.fn = "entries"
    /\ call.step # "start"
    /\ call' = [call EXCEPT !.left = MaxSignals, !.step = "start", !.symbol = ""]
    /\ UNCHANGED <<worker_vars, last_signal_ts, emitted>>

\* The broker fills an entry order: it leaves the open orders and shows as a position
OrderFills ==
    /\ call.fn = "entries"
    /\ \E j \in DOMAIN call.pending :
          call' = [call EXCEPT
              !.pending = SubSeq(@, 1, j - 1) \o SubSeq(@, j + 1, Len(@)),
              !.held[call.pending[j]] = @ + 1,
              !.step = "filled", !.symbol = call.pending[j]]
    /\ UNCHANGED <<worker_vars, last_signal_ts, emitted>>

\* A position is closed
PositionCloses ==
    /\ call.fn = "entries"
    /\ \E y \in OpenPositions(call) :
          call' = [call EXCEPT !.held[y] = 0, !.step = "closed", !.symbol = y]
    /\ UNCHANGED <<worker_vars, last_signal_ts, emitted>>

NextEntries == EntrySignal \/ NextScan \/ OrderFills \/ PositionCloses

SpecEntries == InitEntries /\ [][NextEntries]_vars

\* C40: in live mode, over any sequence of scan cycles with several signals each, no entry
\* order is submitted while the broker's open positions plus the entry orders already
\* submitted and not yet positions number risk_max_concurrent or more.
C40_EntriesWithinConcurrency ==
    [][(call.fn = "entries" /\ call'.step = "submitted") =>
          Committed(call) < call.max_concurrent]_vars

\* What risk.evaluate does enforce: each of the two counts under its own limit
C40_EachCountWithinItsLimit ==
    [][(call.fn = "entries" /\ call'.step = "submitted") =>
          /\ Cardinality(OpenPositions(call)) < call.max_concurrent
          /\ Len(call.pending) < call.max_open_orders
          /\ call.held[call'.symbol] = 0]_vars
====
